---- MODULE Spec2Model ----
(***************************************************************************)
(* A model of the Redis-compatible server: the per-connection session      *)
(* state machine (Normal / Subscribed / Multi), the typed keyspace with    *)
(* per-key notifiers and blocking readers, the replication log and the     *)
(* replication manager with its per-replica outbound queues.               *)
(*                                                                         *)
(* The specifications share the store operators:                           *)
(*   SessionSpec  one client connection, each handler one atomic step;     *)
(*   BlockSpec    BLPOP / XREAD BLOCK waiters against concurrent writers,  *)
(*                split at every await point;                              *)
(*   ReplSpec     a primary with concurrent clients and a replica, split   *)
(*                at every lock acquisition;                               *)
(*   FanSpec      the fan-out of writes to a replica's bounded queue;      *)
(*   PubSpec      publishers and subscribers of one channel;               *)
(*   OrderSpec    one connection's pipelined commands and their replies;   *)
(*   StreamSpec   XADD with explicit and generated ids;                    *)
(*   ZSpec        one sorted set;                                          *)
(*   ExpirySpec   one key with an expiry under an advancing clock;         *)
(*   CodecSpec    the wire codec reading frames that arrive in chunks;     *)
(*   TypeSpec     commands meeting a value of another type;                *)
(*   ListSpec     LPOP with a count against one list;                      *)
(*   LoadSpec     a snapshot loaded at boot and read afterwards;           *)
(*   MailSpec     PUBLISH into the mailbox of a subscriber that stalls;    *)
(*   TxnSpec      an EXEC batch beside another connection;                 *)
(*   HandshakeSpec  a replica's outbound handshake, read in segments.      *)
(***************************************************************************)
EXTENDS Integers, Sequences, FiniteSets, TLC

\* ------------------------------------------------------------------ bounds

\* Commands one session sends before the model stops feeding it.
MaxCmds == 4
\* Largest decimal string the model's integer parser recognises.
ParseRange == 12
\* Elements pushed and entries appended by the writers of BlockSpec.
MaxWrites == 2
\* Commands the clients of ReplSpec issue in total.
MaxOps == 3
\* Heartbeat / GETACK acknowledgements in flight from a replica.
MaxAcks == 1

\* ------------------------------------------------------- program constants

\* wait_command: poll_interval
PollInterval == 250
\* Replica::new: mpsc::channel::<RespCommand>(32)
ReplicaChanCap == 32
\* Client::new: mpsc::channel(1024), the mailbox of pub/sub messages
MailboxCap == 1024

\* ------------------------------------------------------------ text helpers

DigitChar == <<"0", "1", "2", "3", "4", "5", "6", "7", "8", "9">>

\* i64 / usize to_string(): decimal rendering.
RECURSIVE IntToStr(_)
IntToStr(n) ==
  IF n < 10 THEN DigitChar[n + 1]
  ELSE IntToStr(n \div 10) \o DigitChar[(n % 10) + 1]

\* str::parse::<i64>() succeeds.
IsIntStr(s) == \E n \in 0..ParseRange : IntToStr(n) = s

\* str::parse::<i64>() value.
StrToInt(s) == CHOOSE n \in 0..ParseRange : IntToStr(n) = s

RECURSIVE SumLens(_)
SumLens(args) ==
  IF args = <<>> THEN 0
  ELSE 1 + Len(IntToStr(Len(Head(args)))) + 2 + Len(Head(args)) + 2
       + SumLens(Tail(args))

\* Encoder: an array of bulk strings, *<n>\r\n then $<len>\r\n<data>\r\n each.
FrameLen(args) == 1 + Len(IntToStr(Len(args))) + 2 + SumLens(args)

RECURSIVE LogLen(_)
\* Store::get_offset: the byte length of a log holding these frames.
LogLen(frames) ==
  IF frames = <<>> THEN 0 ELSE FrameLen(Head(frames)) + LogLen(Tail(frames))

\* ---------------------------------------------------------------- replies

\* RespValue; Option::None (no reply written) is NoReply.
RInt(n)    == [t |-> "Int",    n |-> n, s |-> "",  a |-> <<>>]
RSimple(s) == [t |-> "Simple", n |-> 0, s |-> s,   a |-> <<>>]
RBulk(s)   == [t |-> "Bulk",   n |-> 0, s |-> s,   a |-> <<>>]
RNil       == [t |-> "Nil",    n |-> 0, s |-> "",  a |-> <<>>]
RErr(s)    == [t |-> "Error",  n |-> 0, s |-> s,   a |-> <<>>]
RArr(a)    == [t |-> "Array",  n |-> 0, s |-> "",  a |-> a]
NoReply    == [t |-> "None",   n |-> 0, s |-> "",  a |-> <<>>]

\* ---------------------------------------------------------------- commands

\* RespCommand, with the fields the modelled variants carry.
Cmd(op, key, val, px, id, n) ==
  [op |-> op, key |-> key, val |-> val, px |-> px, id |-> id, n |-> n]

CMulti       == Cmd("MULTI", "", "", 0, "", 0)
CExec        == Cmd("EXEC", "", "", 0, "", 0)
CDiscard     == Cmd("DISCARD", "", "", 0, "", 0)
CPing        == Cmd("PING", "", "", 0, "", 0)
CQuit        == Cmd("QUIT", "", "", 0, "", 0)
CPsync       == Cmd("PSYNC", "", "", 0, "", 0)
CNone        == Cmd("", "", "", 0, "", 0)
CIncr(k)     == Cmd("INCR", k, "", 0, "", 0)
CGet(k)      == Cmd("GET", k, "", 0, "", 0)
\* px = NoPx is SET without the PX option (Option::None).
NoPx == -1
CSet(k, v, px) == Cmd("SET", k, v, px, "", 0)
CSub(ch)     == Cmd("SUBSCRIBE", ch, "", 0, "", 0)
CUnsub(ch)   == Cmd("UNSUBSCRIBE", ch, "", 0, "", 0)
CXadd(k, id) == Cmd("XADD", k, "v", 0, id, 0)
\* XREAD [BLOCK n] STREAMS k id; n = -1 is no BLOCK option.
CXread(k, id, block) == Cmd("XREAD", k, "", 0, id, block)
CRpush(k, v) == Cmd("RPUSH", k, v, 0, "", 0)
CLpop(k, n)  == Cmd("LPOP", k, "", 0, "", n)
CBlpop(k, t) == Cmd("BLPOP", k, "", 0, "", t)
\* WAIT numreplicas timeout_ms: n is numreplicas, px carries timeout_ms.
CWait(n, t)  == Cmd("WAIT", "", "", t, "", n)
CGetack      == Cmd("GETACK", "", "", 0, "", 0)
CType(k)     == Cmd("TYPE", k, "", 0, "", 0)

\* The raw frame the client sent for a command: the decoder's bytes.
Frame(c) ==
  CASE c.op = "SET" ->
         IF c.px = NoPx THEN <<"SET", c.key, c.val>>
         ELSE <<"SET", c.key, c.val, "PX", IntToStr(c.px)>>
    [] c.op \in {"INCR", "GET", "SUBSCRIBE", "UNSUBSCRIBE"} -> <<c.op, c.key>>
    [] c.op = "XADD" -> <<"XADD", c.key, c.id, "f", c.val>>
    [] c.op = "XREAD" ->
         IF c.n < 0 THEN <<"XREAD", "STREAMS", c.key, c.id>>
         ELSE <<"XREAD", "BLOCK", IntToStr(c.n), "STREAMS", c.key, c.id>>
    [] c.op = "RPUSH" -> <<"RPUSH", c.key, c.val>>
    [] c.op = "LPOP" -> <<"LPOP", c.key, IntToStr(c.n)>>
    [] c.op = "BLPOP" -> <<"BLPOP", c.key, IntToStr(c.n)>>
    [] c.op = "WAIT" -> <<"WAIT", IntToStr(c.n), IntToStr(c.px)>>
    [] c.op = "PSYNC" -> <<"PSYNC", "?", "-1">>
    [] c.op = "GETACK" -> <<"REPLCONF", "GETACK", "*">>
    [] OTHER -> <<c.op>>

\* ---------------------------------------------------------------- keyspace

\* Largest ms and seq parts of the stream ids the model writes.
MaxMs == 2
MaxSeq == 2

\* Entry { value: RedisValue, expires_at: Option<Instant> }; NoExpiry is None.
NoExpiry == -1
Entry(type, text, list, stream, clients, expires) ==
  [type |-> type, text |-> text, list |-> list, stream |-> stream,
   clients |-> clients, expires |-> expires]
Missing == Entry("none", "", <<>>, <<>>, {}, NoExpiry)
TextEntry(v, e) == Entry("Text", v, <<>>, <<>>, {}, e)
ListEntry(l) == Entry("List", "", l, <<>>, {}, NoExpiry)
StreamOf(st) == Entry("Stream", "", <<>>, st, {}, NoExpiry)
ChannelEntry(cl) == Entry("Channel", "", <<>>, <<>>, cl, NoExpiry)

\* _get comparing the clock with > where the code has >=.
GetExpiringLate(ks, key, now) ==
  IF ks[key].type = "none" THEN Missing
  ELSE IF ks[key].expires # NoExpiry /\ now > ks[key].expires THEN Missing
  ELSE ks[key]

\* Store::_get: the entry, or Missing when absent or past its expiry.
Store_get_(ks, key, now) ==
  IF ks[key].type = "none" THEN Missing
  ELSE IF ks[key].expires # NoExpiry /\ now >= ks[key].expires THEN Missing
  ELSE ks[key]

\* Store::get
Store_get(ks, key, now) ==
  LET e == Store_get_(ks, key, now) IN
  IF e.type = "none" THEN RNil
  ELSE IF e.type = "Text" THEN RBulk(e.text)
  ELSE RBulk("")

\* Store::get_type
Store_get_type(ks, key, now) ==
  LET e == Store_get_(ks, key, now) IN
  CASE e.type = "none" -> RSimple("none")
    [] e.type = "Channel" -> RSimple("channel")
    [] e.type = "List" -> RSimple("list")
    [] e.type = "Stream" -> RSimple("stream")
    [] e.type = "Text" -> RSimple("string")

IncrError == RErr("ERR value is not an integer or out of range")

\* Store::incr: the new keyspace and the reply.
Store_incr(ks, key) ==
  LET e == ks[key] IN
  IF e.type = "none"
    THEN [ks |-> [ks EXCEPT ![key] = TextEntry("1", NoExpiry)], resp |-> RInt(1)]
  ELSE IF e.type = "Text" /\ IsIntStr(e.text)
    THEN [ks |-> [ks EXCEPT ![key].text = IntToStr(StrToInt(e.text) + 1)],
          resp |-> RInt(StrToInt(e.text) + 1)]
  ELSE [ks |-> ks, resp |-> IncrError]

\* Store::set
Store_set(ks, key, value, px, now) ==
  [ks EXCEPT ![key] = TextEntry(value, IF px = NoPx THEN NoExpiry ELSE now + px)]

\* List::rpush / Store::rpush: status "ok" with the new length, or "err" (an
\* io::Error the caller propagates); notify says notify_waiters() ran.
Store_rpush(ks, key, values) ==
  LET e == ks[key] IN
  IF e.type = "none"
    THEN [ks |-> [ks EXCEPT ![key] = ListEntry(values)], status |-> "ok",
          len |-> Len(values), notify |-> TRUE]
  ELSE IF e.type = "List"
    THEN [ks |-> [ks EXCEPT ![key].list = e.list \o values], status |-> "ok",
          len |-> Len(e.list) + Len(values), notify |-> TRUE]
  ELSE [ks |-> ks, status |-> "err", len |-> 0, notify |-> FALSE]

\* List::lpop / Store::lpop: status "some" with the popped values, "none"
\* (Ok(None)), "err" (wrong type) or "panic" (drain(..amount) past the end).
Store_lpop(ks, key, amount) ==
  LET e == ks[key] IN
  IF e.type = "none"
    THEN [ks |-> ks, status |-> "none", vals |-> <<>>, notify |-> FALSE]
  ELSE IF e.type # "List"
    THEN [ks |-> ks, status |-> "err", vals |-> <<>>, notify |-> FALSE]
  ELSE IF e.list = <<>>
    THEN [ks |-> ks, status |-> "none", vals |-> <<>>, notify |-> TRUE]
  ELSE IF amount > Len(e.list)
    THEN [ks |-> ks, status |-> "panic", vals |-> <<>>, notify |-> FALSE]
  ELSE [ks |-> [ks EXCEPT ![key].list = SubSeq(e.list, amount + 1, Len(e.list))],
        status |-> "some", vals |-> SubSeq(e.list, 1, amount), notify |-> TRUE]

\* ----------------------------------------------------------------- streams

\* StreamID { ms, seq }
Id(ms, seq) == [ms |-> ms, seq |-> seq]
ZeroId == Id(0, 0)
IdSpace == {Id(m, q) : m \in 0..(MaxMs + 1), q \in 0..(MaxSeq + 1)}

\* Display for StreamID
IdStr(id) == IntToStr(id.ms) \o "-" \o IntToStr(id.seq)

\* #[derive(PartialOrd, Ord)] on (ms, seq)
IdLess(a, b) == a.ms < b.ms \/ (a.ms = b.ms /\ a.seq < b.seq)

\* parse_stream_id / TryFrom<&str>: does the text parse as <ms>-<seq>
IdParses(s) == \E id \in IdSpace : IdStr(id) = s
ParseId(s) == CHOOSE id \in IdSpace : IdStr(id) = s

\* <ms>-* input
IsAutoSeq(s) == \E m \in 0..(MaxMs + 1) : IntToStr(m) \o "-*" = s
AutoSeqMs(s) == CHOOSE m \in 0..(MaxMs + 1) : IntToStr(m) \o "-*" = s

\* Stream::previous_id: the last key of the BTreeMap, 0-0 when empty.
PreviousId(st) == IF st = <<>> THEN ZeroId ELSE Id(st[Len(st)].ms, st[Len(st)].seq)

\* StreamID::generate with previous = Some(prev) (hasPrev) or None:
\* [ok, id]; ok = FALSE is the parse error.
GenerateId(hasPrev, prev, given, now) ==
  IF given = "*"
    THEN [ok |-> TRUE,
          id |-> Id(now, IF hasPrev /\ prev.ms = now THEN prev.seq + 1 ELSE 0)]
  ELSE IF IsAutoSeq(given)
    THEN LET ms == AutoSeqMs(given)
             seq0 == IF hasPrev /\ prev.ms = ms THEN prev.seq + 1 ELSE 0
             seq == IF ms = 0 /\ seq0 = 0 THEN 1 ELSE seq0
         IN [ok |-> TRUE, id |-> Id(ms, seq)]
  ELSE IF IdParses(given) THEN [ok |-> TRUE, id |-> ParseId(given)]
  ELSE [ok |-> FALSE, id |-> ZeroId]

\* validate_id comparing the sequence numbers with < where the code has <=.
ValidateIdAllowingEqual(id, previous) ==
  /\ id # ZeroId
  /\ ~(id.ms < previous.ms \/ (id.ms = previous.ms /\ id.seq < previous.seq))

\* Stream::validate_id
ValidateId(id, previous) ==
  /\ id # ZeroId
  /\ ~(id.ms < previous.ms \/ (id.ms = previous.ms /\ id.seq <= previous.seq))

\* Store::xadd: status "ok" with the id, or "err"; the keyspace changes only
\* on "ok".
Store_xadd(ks, key, given, val, now) ==
  LET e == ks[key]
      g == GenerateId(e.type = "Stream", PreviousId(e.stream), given, now)
      rec == [ms |-> g.id.ms, seq |-> g.id.seq, val |-> val]
  IN
  IF e.type \notin {"none", "Stream"} \/ ~g.ok
     \/ ~ValidateId(g.id, PreviousId(e.stream))
    THEN [ks |-> ks, status |-> "err", id |-> g.id]
  ELSE [ks |-> [ks EXCEPT ![key] = StreamOf(e.stream \o <<rec>>)],
        status |-> "ok", id |-> g.id]

\* Stream::get_from / Store::xread: the entries strictly after start.
RECURSIVE GetFrom(_, _)
GetFrom(st, start) ==
  IF st = <<>> THEN <<>>
  ELSE IF IdLess(start, Id(Head(st).ms, Head(st).seq))
    THEN <<Head(st)>> \o GetFrom(Tail(st), start)
  ELSE GetFrom(Tail(st), start)

\* Store::xread: [ok, entries]; a key of another type is the io::Error.
Store_xread(ks, key, start) ==
  IF ks[key].type = "none" THEN [ok |-> TRUE, entries |-> <<>>]
  ELSE IF ks[key].type = "Stream"
    THEN [ok |-> TRUE, entries |-> GetFrom(ks[key].stream, start)]
  ELSE [ok |-> FALSE, entries |-> <<>>]

\* Store::resolve_stream_ids for one key: [ok, id]; `$` on a missing key or
\* on a key of another type is the io::Error.
ResolveStreamId(ks, key, given) ==
  IF given = "$"
    THEN IF ks[key].type = "Stream"
           THEN [ok |-> TRUE, id |-> PreviousId(ks[key].stream)]
         ELSE [ok |-> FALSE, id |-> ZeroId]
  ELSE IF IdParses(given) THEN [ok |-> TRUE, id |-> ParseId(given)]
  ELSE [ok |-> FALSE, id |-> ZeroId]

\* encode_stream / poll_xread for one key: [[key, [[id, [f, v]], ...]]]
RECURSIVE EncodeStream(_)
EncodeStream(entries) ==
  IF entries = <<>> THEN <<>>
  ELSE <<RArr(<<RBulk(IdStr(Id(Head(entries).ms, Head(entries).seq))),
                RArr(<<RBulk("f"), RBulk(Head(entries).val)>>)>>)>>
       \o EncodeStream(Tail(entries))

\* try_poll_xread: NoReply when no named stream yields an entry.
TryPollXread(ks, key, start) ==
  LET r == Store_xread(ks, key, start) IN
  IF r.entries = <<>> THEN NoReply
  ELSE RArr(<<RArr(<<RBulk(key), RArr(EncodeStream(r.entries))>>)>>)

\* ------------------------------------------------------------ pub/sub store

\* Store::subscribe / unsubscribe key: format!("channel-{channel_name}")
ChanKey(ch) == "channel-" \o ch

\* Store::subscribe
Store_subscribe(ks, ch, addr) ==
  LET k == ChanKey(ch) IN
  IF ks[k].type = "none" THEN [ks EXCEPT ![k] = ChannelEntry({addr})]
  ELSE IF ks[k].type = "Channel" THEN [ks EXCEPT ![k].clients = @ \cup {addr}]
  ELSE ks

\* Store::unsubscribe
Store_unsubscribe(ks, ch, addr) ==
  LET k == ChanKey(ch) IN
  IF ks[k].type = "Channel" THEN [ks EXCEPT ![k].clients = @ \ {addr}] ELSE ks

\* ------------------------------------------------------ replication manager

\* Peer addresses of the connections a primary accepts.
Conns == {"c1", "c2", "r1"}

\* Replica { tx, acknowledged_offset }; present = FALSE is no map entry.
NoReplica == [present |-> FALSE, ack |-> 0, q |-> <<>>]

\* ReplicationManager::add_replica (Replica::new: acknowledged_offset 0)
AddReplica(reg, addr) ==
  [reg EXCEPT ![addr] = [present |-> TRUE, ack |-> 0, q |-> <<>>]]

\* ReplicationManager::update_offset
UpdateOffset(reg, addr, offset) ==
  IF reg[addr].present THEN [reg EXCEPT ![addr].ack = offset] ELSE reg

\* ReplicationManager::replica_count
ReplicaCount(reg, offset) ==
  Cardinality({a \in DOMAIN reg : reg[a].present /\ reg[a].ack >= offset})

\* Replica::send on every replica can complete: no outbound channel is full.
CanSendToReplicas(reg) ==
  \A a \in DOMAIN reg : reg[a].present => Len(reg[a].q) < ReplicaChanCap

\* ReplicationManager::send_to_replicas
SendToReplicas(reg, c) ==
  [a \in DOMAIN reg |->
     IF reg[a].present THEN [reg[a] EXCEPT !.q = Append(@, c)] ELSE reg[a]]

\* Replica::new drain task: the frame written for a queued command, <<>> for
\* the commands the task drops.
DrainEncode(c) ==
  IF c.op = "SET" THEN <<"SET", c.key, c.val>>
  ELSE IF c.op = "GETACK" THEN <<"REPLCONF", "GETACK", "*">>
  ELSE <<>>

\* ------------------------------------------------------------------- state

VARIABLES
  keyspace,   \* Store.keyspace of the primary: key -> Entry
  log,        \* Store.log of the primary: the frames appended, in order
  registry,   \* ReplicationManager.replicas: peer address -> Replica
  now,        \* wall clock, ms
  \* --- SessionSpec: one client connection
  mode,       \* Client.mode
  queued,     \* Session.queued: <<command, frame>> pairs
  channels,   \* Client.channels
  out,        \* what the server wrote to the connection's socket
  conn,       \* "open" | "replica" (inside psync_command) | "closed"
  cmd,        \* the command the session loop decoded last
  nsent,      \* commands the client has sent
  \* --- BlockSpec: blocking readers and the writers that wake them
  wpc,        \* waiter -> where its blpop_command / xread_command task is
  wwoken,     \* waiter -> its Notified future has been notified
  wout,       \* waiter -> what the server wrote to its socket
  deadline,   \* when the sleep of wait_with_timeout fires
  xids,       \* the StreamID resolve_stream_ids returned to the XREAD
  xcall,      \* entries the stream held when the XREAD was issued
  npush,      \* RPUSHes done by the writer
  npop,       \* LPOPs done by the other consumer
  nadd,       \* XADDs done by the writer
  \* --- ReplSpec: a primary, its client connections and one replica
  clients,    \* client -> [pc, cmd, offset, elapsed] of its handler task
  cout,       \* client -> what the server wrote to its socket
  rconn,      \* the replica's connection: "none" | "connected" | "gone"
  wire,       \* frames the drain task wrote to the replica's socket
  rpos,       \* frames of wire the replica has processed
  rstore,     \* the replica's value of key k ("" when it has none)
  rlog,       \* Store.log of the replica
  ackq,       \* REPLCONF ACK offsets in flight to the primary
  applied,    \* frames of the commands that changed the primary's keyspace
  handed,     \* commands (GETACK aside) passed to send_to_replicas
  enq,        \* commands put on the replica's outbound queue, in order
  owed,       \* mutations applied while the replica was registered
  joinedAt,   \* Len(applied) when the replica registered
  nops,       \* commands issued by the clients so far
  \* --- FanSpec: the manager lock around the fan-out
  mlock,      \* who holds the ReplicationManager mutex: "free" or a peer
  \* --- PubSpec: subscriber connections beside a publishing connection
  subs,       \* subscriber -> its Client, its task and its socket
  \* --- OrderSpec: one connection whose peer pipelines its commands
  pipe,       \* the socket's unread input and the connection task's position
  \* --- ZSpec: one sorted-set key
  zset,       \* the Zrank under the key, NoZrank while the key is missing
  \* --- CodecSpec: one Framed<TcpStream, RespCodec> read side
  codec,      \* the value sent, the bytes in flight, the read buffer, the items yielded
  \* --- LoadSpec: the snapshot file read at startup
  rdb,        \* the records of the file and the wall time of the load
  \* --- MailSpec: a publisher, a subscriber's mailbox and the keyspace lock
  mail,       \* the keyspace lock, the subscriber's mpsc queue and the tasks' positions
  \* --- TxnSpec: a MULTI/EXEC connection and another connection
  txn,        \* the transaction's handler task and both connections' replies
  \* --- HandshakeSpec: a replica's outbound handshake and its primary
  hs          \* the replica's handshake task, the socket and the primary's side of it

sessVars == <<mode, queued, channels, out, conn, cmd, nsent>>
storeVars == <<keyspace, log, registry, now>>
blockVars == <<wpc, wwoken, wout, deadline, xids, xcall, npush, npop, nadd>>
replVars == <<clients, cout, rconn, wire, rpos, rstore, rlog, ackq, applied,
              handed, enq, owed, joinedAt, nops>>
vars == <<keyspace, log, registry, now, mode, queued, channels, out, conn,
          cmd, nsent, wpc, wwoken, wout, deadline, xids, xcall, npush, npop,
          nadd, clients, cout, rconn, wire, rpos, rstore, rlog, ackq, applied,
          handed, enq, owed, joinedAt, nops, mlock, subs, pipe,
          zset,
          codec,
          rdb,
          mail,
          txn,
          hs>>
fanVars == <<mlock>>
pubVars == <<subs>>
pipeVars == <<pipe>>
zsetVars == <<zset>>
codecVars == <<codec>>
rdbVars == <<rdb>>
mailVars == <<mail>>
txnVars == <<txn>>
hsVars == <<hs>>

\* What each specification leaves alone.
notSession == <<blockVars, replVars, fanVars, pubVars, pipeVars,
   zsetVars,
   codecVars,
   rdbVars,
   mailVars,
   txnVars,
   hsVars>>
notBlock == <<log, registry, sessVars, replVars, fanVars, pubVars,
             pipeVars,
   zsetVars,
   codecVars,
   rdbVars,
   mailVars,
   txnVars,
   hsVars>>
notRepl == <<now, sessVars, blockVars, fanVars, pubVars, pipeVars,
   zsetVars,
   codecVars,
   rdbVars,
   mailVars,
   txnVars,
   hsVars>>

\* The connections of BlockSpec that issue a blocking read:
\* B0 sends BLPOP l 0, BT sends BLPOP l <BlpopTimeout>, XR sends
\* XREAD BLOCK 0 STREAMS s $.
B0 == "b0"
BT == "bt"
XR == "xr"
Waiters == {B0, BT, XR}
WKey(w) == IF w = XR THEN "s" ELSE "l"

\* The client connections of ReplSpec and the replica's peer address.
Clients == {"c1", "c2"}
R1 == "r1"

\* A handler task that is between commands.
IdleClient == [pc |-> "idle", cmd |-> CNone, offset |-> 0, elapsed |-> 0]

\* No client has issued a command and no replica has connected.
ReplIdle ==
  /\ clients = [c \in Clients |-> IdleClient]
  /\ cout = [c \in Clients |-> <<>>]
  /\ rconn = "none"
  /\ wire = <<>>
  /\ rpos = 0
  /\ rstore = ""
  /\ rlog = <<>>
  /\ ackq = <<>>
  /\ applied = <<>>
  /\ handed = <<>>
  /\ enq = <<>>
  /\ owed = 0
  /\ joinedAt = 0
  /\ nops = 0

\* Nobody holds the manager lock.
FanIdle == mlock = "free"

\* The subscriber connections of PubSpec.
Subs == {"s1", "s2"}

\* Client::new for a subscriber, with its connection task and its socket:
\* task is "running" until handle_master_connection returns (which drops
\* Client.rx), sock is "open" until the peer closes it, inbox is what the
\* channel behind Client.tx / Client.rx holds, got is what the peer has been
\* sent, want is the channels the peer has asked for and not cancelled,
\* n counts its commands.
NewClient ==
  [mode |-> "Normal", task |-> "running", sock |-> "open", channels |-> <<>>,
   want |-> {}, inbox |-> <<>>, got |-> <<>>, n |-> 0]

PubIdle == subs = [s \in Subs |-> NewClient]

\* A connection nothing has been sent on.  inq is what the peer has written
\* and the task has not read yet, each frame with its position in the
\* peer's stream; tags gives, for each reply in out, the position of the
\* command it answers; busy says the task is inside a handler; pc and woken
\* are the blpop_command in progress and its Notified future, cur the
\* position of the latest command whose blpop_command had to wait; txn is
\* the peer's own view of MULTI .. EXEC; npush counts the pushes of another
\* connection.
NewPipe ==
  [inq |-> <<>>, tags |-> <<>>, busy |-> FALSE, pc |-> "none", cur |-> 0,
   woken |-> FALSE, txn |-> FALSE, npush |-> 0]

PipeIdle == pipe = NewPipe

\* ------------------------------------------------------------- sorted sets

MaxScore == 2

\* Scores (f64, here small integers) and members; MemberOrder is the
\* lexicographic order of the member strings.
Scores == 1..MaxScore
MemberOrder == <<"a", "b", "c">>
Members == {MemberOrder[i] : i \in 1..Len(MemberOrder)}

\* No entry in reverse_map (Option::None), and no entry in the keyspace.
NoScore == -1
NoZrank == [present |-> FALSE, keys |-> {}, data |-> [s \in Scores |-> {}],
            rev |-> [m \in Members |-> NoScore]]

\* Zrank: keys is the key set of the BTreeMap data (a bucket can be empty),
\* data[s] the BTreeSet under score s, rev the HashMap reverse_map.
ZrankOf(keys, data, rev) ==
  [present |-> TRUE, keys |-> keys, data |-> data, rev |-> rev]

\* Store::zadd: the Zrank afterwards and the integer returned.
Store_zadd(z, rank, value) ==
  IF ~z.present
    THEN [z |-> ZrankOf({rank}, [NoZrank.data EXCEPT ![rank] = {value}],
                        [NoZrank.rev EXCEPT ![value] = rank]),
          ret |-> 1]
  ELSE LET old == z.rev[value]
           old_value == old # NoScore /\ old # rank
           d1 == IF old_value THEN [z.data EXCEPT ![old] = @ \ {value}]
                 ELSE z.data
           added == value \notin d1[rank]
       IN [z |-> ZrankOf(z.keys \cup {rank},
                         [d1 EXCEPT ![rank] = @ \cup {value}],
                         [z.rev EXCEPT ![value] = rank]),
           ret |-> IF added /\ ~old_value THEN 1 ELSE 0]

\* Store::zrem: Some(1) when reverse_map has the member, None (ret 0 in the
\* reply) otherwise; only the bucket is touched.
Store_zrem(z, value) ==
  IF z.present /\ z.rev[value] # NoScore
    THEN [z |-> [z EXCEPT !.data[z.rev[value]] = @ \ {value}], ret |-> 1]
  ELSE [z |-> z, ret |-> 0]

\* The members of one bucket in lexicographic order (v.sort()).
SortedBucket(set) == SelectSeq(MemberOrder, LAMBDA m : m \in set)

\* zrange's flat_map over data.iter(): the buckets by ascending score.
RECURSIVE FlatMembers(_, _)
FlatMembers(z, s) ==
  IF s > MaxScore THEN <<>>
  ELSE (IF s \in z.keys THEN SortedBucket(z.data[s]) ELSE <<>>)
       \o FlatMembers(z, s + 1)

\* normalize_index
NormalizeIndex(idx, len) ==
  IF idx < 0 THEN (IF -idx > len THEN 0 ELSE len - (-idx))
  ELSE IF idx >= len THEN len
  ELSE idx

\* Store::zrange: the members returned; panic is the slice index out of
\* range in members[start..=stop].
Store_zrange(z, start, stop) ==
  IF ~z.present THEN [panic |-> FALSE, vals |-> <<>>]
  ELSE LET len == Cardinality(z.keys)
           members == FlatMembers(z, 1)
           b == NormalizeIndex(start, len)
           e0 == NormalizeIndex(stop, len)
           e == IF e0 >= len THEN len - 1 ELSE e0
       IN IF len = 0 \/ b > e0 THEN [panic |-> FALSE, vals |-> <<>>]
          ELSE IF b > e + 1 \/ e + 1 > Len(members)
            THEN [panic |-> TRUE, vals |-> <<>>]
          ELSE [panic |-> FALSE, vals |-> SubSeq(members, b + 1, e + 1)]

\* Store::zcard
Store_zcard(z) ==
  IF z.present THEN Cardinality({m \in Members : \E s \in z.keys : m \in z.data[s]})
  ELSE 0

ZsetIdle == zset = NoZrank

\* ------------------------------------------------------------------- codec
\* RespCodec over byte sequences: a byte is a one-character string, a buffer
\* (BytesMut) a sequence of bytes.

CR == "\r"
LF == "\n"

\* RespValue; BulkString(None) is BulkNone, BulkString(Some(data)) is Bulk.
SimpleString(s) == [t |-> "SimpleString", i |-> 0, s |-> s, a |-> <<>>]
ErrorString(s) == [t |-> "Error", i |-> 0, s |-> s, a |-> <<>>]
Integer(i) == [t |-> "Integer", i |-> i, s |-> <<>>, a |-> <<>>]
BulkNone == [t |-> "BulkNone", i |-> 0, s |-> <<>>, a |-> <<>>]
Bulk(data) == [t |-> "Bulk", i |-> 0, s |-> data, a |-> <<>>]
Array(values) == [t |-> "Array", i |-> 0, s |-> <<>>, a |-> values]

\* The bytes of src before and from position n (BytesMut::split_to(n)).
SplitHead(src, n) == SubSeq(src, 1, n)
SplitRest(src, n) == SubSeq(src, n + 1, Len(src))

\* to_string() of a non-negative number, as bytes.
RECURSIVE Digits(_)
Digits(n) ==
  IF n < 10 THEN <<DigitChar[n + 1]>>
  ELSE Digits(n \div 10) \o <<DigitChar[(n % 10) + 1]>>

\* i64::to_string / usize formatting
I64ToString(i) == IF i < 0 THEN <<"-">> \o Digits(0 - i) ELSE Digits(i)

DigitValue(b) == CHOOSE d \in 0..9 : DigitChar[d + 1] = b

RECURSIVE DigitsValue(_)
DigitsValue(ds) ==
  IF ds = <<>> THEN 0
  ELSE 10 * DigitsValue(SubSeq(ds, 1, Len(ds) - 1)) + DigitValue(ds[Len(ds)])

\* parse_integer: str::parse::<i64>(), an optional sign and one digit or more.
ParseInteger(data) ==
  LET signed == data # <<>> /\ data[1] \in {"-", "+"}
      ds == IF signed THEN Tail(data) ELSE data
      DigitSet == {DigitChar[d] : d \in 1..10} IN
  IF ds = <<>> \/ \E k \in 1..Len(ds) : ds[k] \notin DigitSet
    THEN [ok |-> FALSE, val |-> 0]
  ELSE [ok |-> TRUE,
        val |-> IF signed /\ data[1] = "-" THEN 0 - DigitsValue(ds)
                ELSE DigitsValue(ds)]

\* write_line
WriteLine(prefix, content) == <<prefix>> \o content \o <<CR, LF>>

\* write_bulk_string writing the absent bulk string as an empty one.
WriteBulkAbsentAsEmpty(option) == <<"$", "0", CR, LF, CR, LF>>

\* write_bulk_string
WriteBulkString(option) ==
  IF option.t = "BulkNone" THEN <<"$", "-", "1", CR, LF>>
  ELSE <<"$">> \o I64ToString(Len(option.s)) \o <<CR, LF>> \o option.s \o <<CR, LF>>

\* Encoder::encode / write_array
RECURSIVE Encode(_)
RECURSIVE WriteEach(_)
WriteEach(values) ==
  IF values = <<>> THEN <<>>
  ELSE Encode(Head(values)) \o WriteEach(Tail(values))
Encode(item) ==
  CASE item.t = "SimpleString" -> WriteLine("+", item.s)
    [] item.t = "Error" -> WriteLine("-", item.s)
    [] item.t = "Integer" -> WriteLine(":", I64ToString(item.i))
    [] item.t \in {"Bulk", "BulkNone"} -> WriteBulkString(item)
    [] item.t = "Array" ->
         <<"*">> \o I64ToString(Len(item.a)) \o <<CR, LF>> \o WriteEach(item.a)

\* A decoder result: Ok(Some(val)), Ok(None) or Err, and the buffer it leaves.
DSome(val, rest) == [st |-> "some", val |-> val, rest |-> rest]
DNone(rest) == [st |-> "none", val |-> BulkNone, rest |-> rest]
DErr(rest) == [st |-> "err", val |-> BulkNone, rest |-> rest]

\* parse_resp_line: the first CR LF ends the line; the line is split off the
\* buffer and returned without its first byte and its terminator.
CrlfAt(src) == {p \in 1..(Len(src) - 1) : src[p] = CR /\ src[p + 1] = LF}
ParseRespLine(src) ==
  IF CrlfAt(src) = {} THEN [found |-> FALSE, line |-> <<>>, rest |-> src]
  ELSE LET pos == CHOOSE p \in CrlfAt(src) : \A q \in CrlfAt(src) : p <= q IN
       [found |-> TRUE, line |-> SubSeq(src, 2, pos - 1),
        rest |-> SplitRest(src, pos + 1)]

\* digest_stream
DigestStream(src, pos) ==
  IF Len(src) < pos + 2 THEN DNone(src)
  ELSE IF SubSeq(src, pos + 1, pos + 2) # <<CR, LF>> THEN DErr(SplitRest(src, pos + 2))
  ELSE DSome(Bulk(SplitHead(src, pos)), SplitRest(src, pos + 2))

\* simple_string
SimpleStringOf(src) ==
  LET l == ParseRespLine(src) IN
  IF l.found THEN DSome(SimpleString(l.line), l.rest) ELSE DNone(src)

\* error_string
ErrorStringOf(src) ==
  LET l == ParseRespLine(src) IN
  IF l.found THEN DSome(ErrorString(l.line), l.rest) ELSE DNone(src)

\* int_string
IntString(src) ==
  LET l == ParseRespLine(src)
      n == ParseInteger(l.line) IN
  IF ~l.found THEN DNone(src)
  ELSE IF ~n.ok THEN DErr(l.rest)
  ELSE DSome(Integer(n.val), l.rest)

\* bulk_string: the length line is split off before digest_stream looks for
\* the data. Lengths below -1 are outside the frames the model sends.
BulkStringOf(src) ==
  LET l == ParseRespLine(src)
      n == ParseInteger(l.line) IN
  IF ~l.found THEN DNone(src)
  ELSE IF ~n.ok \/ n.val < -1 THEN DErr(l.rest)
  ELSE IF n.val = -1 THEN DSome(BulkNone, l.rest)
  ELSE DigestStream(l.rest, n.val)

\* Decoder::decode / RespCodec::parse_array
RECURSIVE Decode(_)
RECURSIVE ParseElements(_, _, _)
ParseElements(src, size, ret) ==
  IF size <= 0 THEN DSome(Array(ret), src)
  ELSE LET r == Decode(src) IN
       IF r.st = "some" THEN ParseElements(r.rest, size - 1, Append(ret, r.val))
       ELSE r
ParseArray(src) ==
  LET l == ParseRespLine(src)
      n == ParseInteger(l.line) IN
  IF ~l.found THEN DNone(src)
  ELSE IF ~n.ok THEN DErr(l.rest)
  ELSE ParseElements(l.rest, n.val, <<>>)
Decode(src) ==
  IF src = <<>> THEN DNone(src)
  ELSE CASE src[1] = "+" -> SimpleStringOf(src)
         [] src[1] = "-" -> ErrorStringOf(src)
         [] src[1] = ":" -> IntString(src)
         [] src[1] = "$" -> BulkStringOf(src)
         [] src[1] = "*" -> ParseArray(src)
         [] OTHER -> DErr(src)

\* CodecSpec has not started.
NoCodec == [sent |-> <<>>, wire |-> <<>>, buf |-> <<>>, readable |-> FALSE,
            got |-> <<>>, st |-> "idle", reads |-> 0]
CodecIdle == codec = NoCodec

\* --------------------------------------------------------------- snapshot
\* The records of a snapshot file after the header, as RdbConfig::load reads
\* them: op is "FD" (expire, seconds), "FC" (expire, ms) or "KV" (opcode 0).

ExpireSecs(secs) == [op |-> "FD", at |-> secs, key |-> "", val |-> ""]
ExpireMs(ms) == [op |-> "FC", at |-> ms, key |-> "", val |-> ""]
KeyValue(k, v) == [op |-> "KV", at |-> 0, key |-> k, val |-> v]

\* `expiry: Option<u64>`; NoPending is None.
NoPending == -1

\* RdbConfig::load: the (key, value, expiry) triples pushed to ret, the file
\* being read at wall time wall (ms since the epoch).
RECURSIVE Load(_, _, _)
Load(records, expiry, wall) ==
  IF records = <<>> THEN <<>>
  ELSE LET r == Head(records) IN
       CASE r.op = "FD" -> Load(Tail(records), r.at * 1000, wall)
         [] r.op = "FC" -> Load(Tail(records), r.at, wall)
         [] OTHER ->
              (IF (expiry # NoPending /\ wall < expiry) \/ expiry = NoPending
                 THEN <<[key |-> r.key, val |-> r.val, px |-> expiry]>>
               ELSE <<>>)
              \o Load(Tail(records), NoPending, wall)

\* main: `for (key, value, px) in database { store.set(&key, value, px) }`
RECURSIVE SetEach(_, _, _)
SetEach(ks, database, t) ==
  IF database = <<>> THEN ks
  ELSE SetEach(Store_set(ks, Head(database).key, Head(database).val,
                         IF Head(database).px = NoPending THEN NoPx
                         ELSE Head(database).px, t),
               Tail(database), t)

\* LoadSpec has not started.
NoRdb == [records |-> <<>>, at |-> 0]
RdbIdle == rdb = NoRdb

\* MailSpec has not started.
NoMail == [lock |-> "idle", subscribed |-> FALSE, inbox |-> 0, got |-> 0,
           stalled |-> FALSE, pub |-> "idle", other |-> "idle"]
MailIdle == mail = NoMail

\* TxnSpec has not started.
NoTxn == [pc |-> "none", queue |-> <<>>, pos |-> 0, responses |-> <<>>,
          out |-> <<>>, peer |-> <<>>]
TxnIdle == txn = NoTxn

\* HandshakeSpec has not started.
NoHs == [pc |-> "none", step |-> 0, sent |-> <<>>, answered |-> 0,
         written |-> 0, net |-> <<>>, buf |-> <<>>, readable |-> FALSE,
         replies |-> 0, lost |-> <<>>, line |-> <<>>, need |-> 0,
         rdb |-> <<>>, got |-> <<>>, st |-> "open"]
HsIdle == hs = NoHs

\* No blocking read has been issued and no writer has written.
BlockIdle ==
  /\ wpc = [w \in Waiters |-> "idle"]
  /\ wwoken = [w \in Waiters |-> FALSE]
  /\ wout = [w \in Waiters |-> <<>>]
  /\ deadline = 0
  /\ xids = [ms |-> 0, seq |-> 0]
  /\ xcall = 0
  /\ npush = 0
  /\ npop = 0
  /\ nadd = 0

\* --------------------------------------------------------- process_command

\* The peer address of SessionSpec's connection.
Self == "c1"

\* An array reply of bulk strings, one per value.
BulkArray(vals) == RArr([i \in 1..Len(vals) |-> RBulk(vals[i])])

\* process_command: the reply (NoReply for Ok(None)) and the store after it;
\* err is an Err(..) or a panic, which ends the connection task.
Result(ks, lg, reg, resp, err) ==
  [ks |-> ks, log |-> lg, reg |-> reg, resp |-> resp, err |-> err]

ProcessCommand(c, ks, lg, reg, t) ==
  CASE c.op = "PING" -> Result(ks, lg, reg, RSimple("PONG"), FALSE)
    [] c.op = "EXEC" -> Result(ks, lg, reg, RErr("ERR EXEC without MULTI"), FALSE)
    [] c.op = "DISCARD" ->
         Result(ks, lg, reg, RErr("ERR DISCARD without MULTI"), FALSE)
    [] c.op = "MULTI" ->
         Result(ks, lg, reg, RErr("ERR MULTI calls can not be nested"), FALSE)
    [] c.op = "INCR" ->
         LET r == Store_incr(ks, c.key) IN Result(r.ks, lg, reg, r.resp, FALSE)
    [] c.op = "GET" -> Result(ks, lg, reg, Store_get(ks, c.key, t), FALSE)
    [] c.op = "TYPE" ->
         Result(ks, lg, reg, Store_get_type(ks, c.key, t), FALSE)
    [] c.op = "SET" ->
         \* set_command: store.set, append_to_log, send_to_replicas
         Result(Store_set(ks, c.key, c.val, c.px, t), Append(lg, Frame(c)),
                SendToReplicas(reg, c), RSimple("OK"), FALSE)
    [] c.op = "XADD" ->
         \* xadd_command: append_to_log first, then store.xadd
         LET r == Store_xadd(ks, c.key, c.id, c.val, t) IN
         Result(r.ks, Append(lg, Frame(c)), reg,
                IF r.status = "ok" THEN RBulk(IdStr(r.id))
                ELSE RErr("ERR The ID specified in XADD is invalid"), FALSE)
    [] c.op = "XREAD" ->
         \* xread_command without BLOCK: resolve, poll, poll again
         LET id == ResolveStreamId(ks, c.key, c.id) IN
         IF ~id.ok \/ ~Store_xread(ks, c.key, id.id).ok
           THEN Result(ks, lg, reg, NoReply, TRUE)
         ELSE Result(ks, lg, reg, TryPollXread(ks, c.key, id.id), FALSE)
    [] c.op = "RPUSH" ->
         LET r == Store_rpush(ks, c.key, <<c.val>>) IN
         Result(r.ks, lg, reg, RInt(r.len), r.status = "err")
    [] c.op = "LPOP" ->
         \* list::lpop: the popped elements as an array of bulk strings
         LET r == Store_lpop(ks, c.key, c.n) IN
         Result(r.ks, lg, reg,
                IF r.status = "some" THEN BulkArray(r.vals) ELSE RNil,
                r.status \in {"err", "panic"})
    [] OTHER -> Result(ks, lg, reg, NoReply, TRUE)   \* unimplemented!()

\* ------------------------------------------------------------- SessionSpec

SessionKeys == {"c", "s", ChanKey("news")}

\* Commands the client of SessionSpec sends.
SessionCmds ==
  { CMulti, CExec, CDiscard, CPing, CQuit, CPsync,
    CIncr("c"), CGet("c"), CSet("c", "a", NoPx),
    CXadd("s", "1-1"), CXread("s", "0-0", -1),
    CSub("news"), CUnsub("news") }

\* Command::try_from_resp knows the command name ("quit" is not in its match).
Parses(c) == c.op # "QUIT"

SessionInit ==
  /\ keyspace = [k \in SessionKeys |-> Missing]
  /\ log = <<>>
  /\ registry = [a \in Conns |-> NoReplica]
  /\ now = 1
  /\ mode = "Normal"
  /\ queued = <<>>
  /\ channels = <<>>
  /\ out = <<>>
  /\ conn = "open"
  /\ cmd = CNone
  /\ nsent = 0
  /\ BlockIdle
  /\ ReplIdle
  /\ FanIdle
  /\ PubIdle
  /\ PipeIdle
  /\ ZsetIdle
  /\ CodecIdle
  /\ RdbIdle
  /\ MailIdle
  /\ TxnIdle
  /\ HsIdle

\* The session loop reads one frame: framed.next() yields (value, bytes).
Recv(c) ==
  /\ conn = "open"
  /\ nsent < MaxCmds
  /\ c \in SessionCmds
  /\ nsent' = nsent + 1
  /\ cmd' = c

\* try_from_resp(..)? fails: the connection task returns the error.
RecvUnparsable(c) ==
  /\ Recv(c)
  /\ ~Parses(c)
  /\ conn' = "closed"
  /\ UNCHANGED <<storeVars, mode, queued, channels, out>>
  /\ UNCHANGED notSession

\* handle_master_connection: PSYNC is taken before the dispatch on the mode.
\* psync_command writes FULLRESYNC and the snapshot, then registers the
\* write half under the peer address and stays in its own read loop.
RecvPsync(c) ==
  /\ Recv(c)
  /\ mode # "Subscribed"     \* run_subscribed_loop reads its own frames
  /\ c.op = "PSYNC"
  /\ out' = out \o <<RSimple("FULLRESYNC"), RBulk("RDB")>>
  /\ registry' = AddReplica(registry, Self)
  /\ conn' = "replica"
  /\ UNCHANGED <<keyspace, log, now, mode, queued, channels>>
  /\ UNCHANGED notSession

\* subscribe_to_channel
SubscribeToChannel(ch) ==
  /\ keyspace' = Store_subscribe(keyspace, ch, Self)
  /\ channels' = Append(channels, ch)
  /\ out' = Append(out, RArr(<<RBulk("subscribe"), RBulk(ch),
                                RInt(Len(channels) + 1)>>))

\* unsubscribe_from_channel: channels.pop()
UnsubscribeFromChannel(ch) ==
  LET left == IF channels = <<>> THEN <<>>
              ELSE SubSeq(channels, 1, Len(channels) - 1) IN
  /\ keyspace' = Store_unsubscribe(keyspace, ch, Self)
  /\ channels' = left
  /\ out' = Append(out, RArr(<<RBulk("unsubscribe"), RBulk(ch),
                                RInt(Len(left))>>))

\* handle_normal_mode, Subscribe arm: run_subscribed_loop
NormalSubscribe(c) ==
  /\ Recv(c)
  /\ mode = "Normal"
  /\ c.op = "SUBSCRIBE"
  /\ mode' = "Subscribed"
  /\ SubscribeToChannel(c.key)
  /\ UNCHANGED <<log, registry, now, queued, conn>>
  /\ UNCHANGED notSession

\* handle_normal_mode, Multi arm
NormalMulti(c) ==
  /\ Recv(c)
  /\ mode = "Normal"
  /\ c.op = "MULTI"
  /\ mode' = "Multi"
  /\ out' = Append(out, RSimple("OK"))
  /\ UNCHANGED <<storeVars, queued, channels, conn>>
  /\ UNCHANGED notSession

\* handle_normal_mode, every other command: process_command, then the reply
\* if there is one.
NormalCommand(c) ==
  /\ Recv(c)
  /\ Parses(c)
  /\ mode = "Normal"
  /\ c.op \notin {"PSYNC", "SUBSCRIBE", "MULTI"}
  /\ CanSendToReplicas(registry)
  /\ LET r == ProcessCommand(c, keyspace, log, registry, now) IN
       /\ keyspace' = r.ks
       /\ log' = r.log
       /\ registry' = r.reg
       /\ conn' = IF r.err THEN "closed" ELSE conn
       /\ out' = IF r.err \/ r.resp = NoReply THEN out ELSE Append(out, r.resp)
  /\ UNCHANGED <<now, mode, queued, channels>>
  /\ UNCHANGED notSession

\* handle_subscribed_mode
SubscribedCommand(c) ==
  /\ Recv(c)
  /\ Parses(c)
  /\ mode = "Subscribed"
  /\ \/ /\ c.op = "SUBSCRIBE"
        /\ SubscribeToChannel(c.key)
     \/ /\ c.op = "UNSUBSCRIBE"
        /\ UnsubscribeFromChannel(c.key)
     \/ /\ c.op = "PING"
        /\ out' = Append(out, RArr(<<RBulk("pong"), RBulk("")>>))
        /\ UNCHANGED <<keyspace, channels>>
     \/ /\ c.op \notin {"SUBSCRIBE", "UNSUBSCRIBE", "PING"}
        /\ out' = Append(out, RErr("ERR Can't execute in this context"))
        /\ UNCHANGED <<keyspace, channels>>
  /\ UNCHANGED <<log, registry, now, mode, queued, conn>>
  /\ UNCHANGED notSession

\* The EXEC loop: process_command on each queued pair in order; a reply is
\* pushed only when the command produced one; an Err or panic stops the loop.
RECURSIVE RunQueue(_, _, _, _, _, _)
RunQueue(q, ks, lg, reg, t, acc) ==
  IF q = <<>> THEN [ks |-> ks, log |-> lg, reg |-> reg, resps |-> acc, err |-> FALSE]
  ELSE LET r == ProcessCommand(Head(q).c, ks, lg, reg, t) IN
       IF r.err
         THEN [ks |-> r.ks, log |-> r.log, reg |-> r.reg, resps |-> acc, err |-> TRUE]
       ELSE RunQueue(Tail(q), r.ks, r.log, r.reg, t,
                     IF r.resp = NoReply THEN acc ELSE Append(acc, r.resp))

\* handle_multi_mode, Exec arm
MultiExec(c) ==
  /\ Recv(c)
  /\ mode = "Multi"
  /\ c.op = "EXEC"
  /\ mode' = "Normal"
  /\ CanSendToReplicas(registry)
  /\ LET r == RunQueue(queued, keyspace, log, registry, now, <<>>) IN
       /\ keyspace' = r.ks
       /\ log' = r.log
       /\ registry' = r.reg
       /\ conn' = IF r.err THEN "closed" ELSE conn
       /\ out' = IF r.err THEN out ELSE Append(out, RArr(r.resps))
       /\ queued' = IF r.err THEN queued ELSE <<>>
  /\ UNCHANGED <<now, channels>>
  /\ UNCHANGED notSession

\* The Discard arm without session.queued.clear().
DiscardKeepingQueue(c) ==
  /\ Recv(c)
  /\ mode = "Multi"
  /\ c.op = "DISCARD"
  /\ mode' = "Normal"
  /\ out' = Append(out, RSimple("OK"))
  /\ UNCHANGED <<storeVars, queued, channels, conn>>
  /\ UNCHANGED notSession

\* handle_multi_mode, Discard arm
MultiDiscard(c) ==
  /\ Recv(c)
  /\ mode = "Multi"
  /\ c.op = "DISCARD"
  /\ mode' = "Normal"
  /\ out' = Append(out, RSimple("OK"))
  /\ queued' = <<>>
  /\ UNCHANGED <<storeVars, channels, conn>>
  /\ UNCHANGED notSession

\* handle_multi_mode, every other command
MultiQueue(c) ==
  /\ Recv(c)
  /\ Parses(c)
  /\ mode = "Multi"
  /\ c.op \notin {"PSYNC", "EXEC", "DISCARD"}
  /\ queued' = Append(queued, [c |-> c, bytes |-> Frame(c)])
  /\ out' = Append(out, RBulk("QUEUED"))
  /\ UNCHANGED <<storeVars, mode, channels, conn>>
  /\ UNCHANGED notSession

\* psync_command's read loop: REPLCONF ACK <offset> updates the replica's
\* acknowledged offset; nothing is written back.
PsyncLoopAck(offset) ==
  /\ conn = "replica"
  /\ nsent < MaxCmds
  /\ nsent' = nsent + 1
  /\ registry' = UpdateOffset(registry, Self, offset)
  /\ UNCHANGED <<keyspace, log, now, mode, queued, channels, out, conn, cmd>>
  /\ UNCHANGED notSession

\* The peer closes the socket: framed.next() yields None and the task ends.
\* No code path removes the address from the replica map.
Disconnect ==
  /\ conn \in {"open", "replica"}
  /\ conn' = "closed"
  /\ UNCHANGED <<storeVars, mode, queued, channels, out, cmd, nsent>>
  /\ UNCHANGED notSession

SessionNext ==
  \/ \E c \in SessionCmds :
       \/ RecvUnparsable(c)
       \/ RecvPsync(c)
       \/ NormalSubscribe(c)
       \/ NormalMulti(c)
       \/ NormalCommand(c)
       \/ SubscribedCommand(c)
       \/ MultiExec(c)
       \/ MultiDiscard(c)
       \/ MultiQueue(c)
  \/ \E n \in {0, LogLen(log)} : PsyncLoopAck(n)
  \/ Disconnect

SessionSpec == SessionInit /\ [][SessionNext]_vars

\* ------------------------------------------------- claims under SessionSpec

\* The step in which the session handles an EXEC received in Multi mode.
ExecStep == \E c \in SessionCmds : MultiExec(c)

\* C1: EXEC received in Multi mode replies with one array that holds one
\* reply per queued command, in queue order (its length is the number of
\* queued commands), and leaves the session in Normal mode with an empty
\* queue.
C1_ExecRepliesPerQueuedCommand ==
  [][ExecStep =>
       /\ mode' = "Normal"
       /\ queued' = <<>>
       /\ Len(out') = Len(out) + 1
       /\ out'[Len(out')].t = "Array"
       /\ Len(out'[Len(out')].a) = Len(queued)]_vars

\* C2: in Multi mode every command other than EXEC and DISCARD (PSYNC and
\* SUBSCRIBE included) is appended to the queue with its raw frame, is
\* answered QUEUED, and leaves the keyspace, the replication log and the
\* replica registry as they were.
C2_MultiQueuesEverythingElse ==
  [][(/\ mode = "Multi"
      /\ conn = "open"
      /\ nsent' = nsent + 1
      /\ Parses(cmd')
      /\ cmd'.op \notin {"EXEC", "DISCARD"})
     =>
     (/\ queued' = Append(queued, [c |-> cmd', bytes |-> Frame(cmd')])
      /\ out' = Append(out, RBulk("QUEUED"))
      /\ mode' = "Multi"
      /\ UNCHANGED <<keyspace, log, registry>>)]_vars

\* --------------------------------------------------------------- BlockSpec

\* timeout_ms of BT's BLPOP, and the last clock value of BlockSpec.
BlpopTimeout == 1
MaxNow == 3

BlockKeys == {"l", "s"}

BlockInit ==
  /\ keyspace = [k \in BlockKeys |-> Missing]
  /\ log = <<>>
  /\ registry = [a \in Conns |-> NoReplica]
  /\ now = 1
  /\ mode = "Normal"
  /\ queued = <<>>
  /\ channels = <<>>
  /\ out = <<>>
  /\ conn = "open"
  /\ cmd = CNone
  /\ nsent = 0
  /\ BlockIdle
  /\ ReplIdle
  /\ FanIdle
  /\ PubIdle
  /\ PipeIdle
  /\ ZsetIdle
  /\ CodecIdle
  /\ RdbIdle
  /\ MailIdle
  /\ TxnIdle
  /\ HsIdle

\* Notify::notify_waiters on the notifier of a key: every Notified future
\* that exists at this moment is woken; no permit is kept for later ones.
NotifyWaiters(key) ==
  [w \in Waiters |-> wwoken[w] \/ (WKey(w) = key /\ wpc[w] = "waiting")]

\* poll_lpop / try_poll_lpop on one key: Store::lpop(key, 1), the reply
\* [key, element] when it popped one, NoReply (Ok(None)) otherwise.
PollLpop(ks, key) ==
  LET r == Store_lpop(ks, key, 1) IN
  [ks |-> r.ks, notify |-> r.notify,
   resp |-> IF r.status = "some" /\ r.vals # <<>>
              THEN RArr(<<RBulk(key), RBulk(r.vals[1])>>) ELSE NoReply]

\* One poll by waiter w, which moves to pc `found` with the reply written
\* when the poll popped an element and to `empty` without a reply otherwise.
\* The waiter's own futures are gone by the time it polls.
WaiterPolls(w, found, empty, replyWhenEmpty) ==
  LET r == PollLpop(keyspace, "l")
      woke == IF r.notify THEN NotifyWaiters("l") ELSE wwoken IN
  /\ keyspace' = r.ks
  /\ wwoken' = [woke EXCEPT ![w] = FALSE]
  /\ wpc' = [wpc EXCEPT ![w] = IF r.resp # NoReply THEN found ELSE empty]
  /\ wout' = [wout EXCEPT ![w] =
                IF r.resp # NoReply THEN Append(@, r.resp)
                ELSE IF replyWhenEmpty # NoReply THEN Append(@, replyWhenEmpty)
                ELSE @]

\* blpop_command: the first try_poll_lpop, before any notifier is taken.
BlpopPoll(w) ==
  /\ w \in {B0, BT}
  /\ wpc[w] = "idle"
  /\ WaiterPolls(w, "done", "polled", NoReply)
  /\ UNCHANGED <<now, deadline, xids, xcall, npush, npop, nadd, notBlock>>

\* blpop_command: get_notifiers, then wait_forever / wait_with_timeout
\* create the Notified futures (and the sleep) and park in select!.
BlpopRegister(w) ==
  /\ w \in {B0, BT}
  /\ wpc[w] = "polled"
  /\ wpc' = [wpc EXCEPT ![w] = "waiting"]
  /\ wwoken' = [wwoken EXCEPT ![w] = FALSE]
  /\ deadline' = IF w = BT THEN now + BlpopTimeout ELSE deadline
  /\ UNCHANGED <<keyspace, now, wout, xids, xcall, npush, npop, nadd, notBlock>>

\* wait_forever: a future completed; yield_now, try_poll_lpop, return the
\* element or go round the loop and create new futures.
BlpopForeverWake ==
  /\ wpc[B0] = "waiting"
  /\ wwoken[B0]
  /\ WaiterPolls(B0, "done", "polled", NoReply)
  /\ UNCHANGED <<now, deadline, xids, xcall, npush, npop, nadd, notBlock>>

\* wait_with_timeout, notified branch: the result of try_poll_lpop is the
\* result of the command, Ok(None) included; handle_normal_mode writes a
\* reply only for Some.
BlpopTimedWake ==
  /\ wpc[BT] = "waiting"
  /\ wwoken[BT]
  /\ WaiterPolls(BT, "done", "done", NoReply)
  /\ UNCHANGED <<now, deadline, xids, xcall, npush, npop, nadd, notBlock>>

\* wait_with_timeout, sleep branch: BulkString(None).
BlpopTimeoutFires ==
  /\ wpc[BT] = "waiting"
  /\ now >= deadline
  /\ wpc' = [wpc EXCEPT ![BT] = "done"]
  /\ wout' = [wout EXCEPT ![BT] = Append(@, RNil)]
  /\ wwoken' = [wwoken EXCEPT ![BT] = FALSE]
  /\ UNCHANGED <<keyspace, now, deadline, xids, xcall, npush, npop, nadd, notBlock>>

\* Another connection's RPUSH l <element>: Store::rpush writes and notifies
\* under the keyspace write lock.
ClientRpush ==
  /\ npush < MaxWrites
  /\ LET r == Store_rpush(keyspace, "l", <<"e" \o IntToStr(npush + 1)>>) IN
       /\ keyspace' = r.ks
       /\ wwoken' = IF r.notify THEN NotifyWaiters("l") ELSE wwoken
  /\ npush' = npush + 1
  /\ UNCHANGED <<now, wpc, wout, deadline, xids, xcall, npop, nadd, notBlock>>

\* Another connection's pop of one element of l (Store::lpop(l, 1)):
\* List::lpop notifies whether or not it found an element.
ClientLpop ==
  /\ npop < MaxWrites
  /\ LET r == Store_lpop(keyspace, "l", 1) IN
       /\ keyspace' = r.ks
       /\ wwoken' = IF r.notify THEN NotifyWaiters("l") ELSE wwoken
  /\ npop' = npop + 1
  /\ UNCHANGED <<now, wpc, wout, deadline, xids, xcall, npush, nadd, notBlock>>

\* The clock advances.
Tick ==
  /\ now < MaxNow
  /\ now' = now + 1
  /\ UNCHANGED <<keyspace, blockVars, notBlock>>

\* Stream::append as the store's xadd expects it (Stream::new(notify)): the
\* insert is followed by notify_waiters on the key's notifier.
StreamAppendNotifies == TRUE

\* Another connection's XADD s * f v.
ClientXadd ==
  /\ nadd < MaxWrites
  /\ LET r == Store_xadd(keyspace, "s", "*", "v", now) IN
       /\ keyspace' = r.ks
       /\ wwoken' = IF r.status = "ok" /\ StreamAppendNotifies
                      THEN NotifyWaiters("s") ELSE wwoken
  /\ nadd' = nadd + 1
  /\ UNCHANGED <<now, wpc, wout, deadline, xids, xcall, npush, npop, notBlock>>

\* xread_command: resolve_stream_ids(..)?; `$` is the top id of the stream,
\* and an Err (the key is missing) ends the connection task.
XreadResolve ==
  /\ wpc[XR] = "idle"
  /\ LET r == ResolveStreamId(keyspace, "s", "$") IN
       /\ wpc' = [wpc EXCEPT ![XR] = IF r.ok THEN "resolved" ELSE "aborted"]
       /\ xids' = r.id
  /\ xcall' = Len(keyspace["s"].stream)
  /\ UNCHANGED <<keyspace, now, wwoken, wout, deadline, npush, npop, nadd,
                 notBlock>>

\* One try_poll_xread by XR with the resolved id.
XreadPolls(from) ==
  LET resp == TryPollXread(keyspace, "s", xids) IN
  /\ wpc[XR] = from
  /\ wpc' = [wpc EXCEPT ![XR] = IF resp # NoReply THEN "done" ELSE "polled"]
  /\ wout' = [wout EXCEPT ![XR] = IF resp # NoReply THEN Append(@, resp) ELSE @]
  /\ wwoken' = [wwoken EXCEPT ![XR] = FALSE]
  /\ UNCHANGED <<keyspace, now, deadline, xids, xcall, npush, npop, nadd,
                 notBlock>>

\* xread_command: the first try_poll_xread, before any notifier is taken.
XreadPoll == XreadPolls("resolved")

\* xread_command: get_notifiers, then wait_forever creates the Notified
\* futures and parks in select!.
XreadRegister ==
  /\ wpc[XR] = "polled"
  /\ wpc' = [wpc EXCEPT ![XR] = "waiting"]
  /\ wwoken' = [wwoken EXCEPT ![XR] = FALSE]
  /\ UNCHANGED <<keyspace, now, wout, deadline, xids, xcall, npush, npop, nadd,
                 notBlock>>

\* wait_forever: a future completed; yield_now, try_poll_xread, return the
\* entries or go round the loop.
XreadWake ==
  /\ wwoken[XR]
  /\ XreadPolls("waiting")

BlockNext ==
  \/ \E w \in {B0, BT} : BlpopPoll(w)
  \/ \E w \in {B0, BT} : BlpopRegister(w)
  \/ BlpopForeverWake
  \/ BlpopTimedWake
  \/ BlpopTimeoutFires
  \/ ClientRpush
  \/ ClientLpop
  \/ ClientXadd
  \/ XreadResolve
  \/ XreadPoll
  \/ XreadRegister
  \/ XreadWake
  \/ Tick

BlockSpec == BlockInit /\ [][BlockNext]_vars

\* --------------------------------------------------- claims under BlockSpec

\* C3: a BLPOP with timeout 0 on l that has started cannot miss a push: it is
\* never parked on its notifier, un-notified, while l holds an element that
\* was pushed after its poll (from such a state nothing but a further push
\* would ever make it return).
C3_BlpopNeverParkedBesideAnElement ==
  ~(/\ wpc[B0] = "waiting"
    /\ ~wwoken[B0]
    /\ keyspace["l"].type = "List"
    /\ keyspace["l"].list # <<>>)

\* C4: a BLPOP with timeout_ms > 0 that has finished has written exactly one
\* reply, [l, element] or the absent sentinel; a wake that finds l empty never
\* makes it finish without a reply.
C4_TimedBlpopRepliesOnce ==
  wpc[BT] = "done" =>
    /\ Len(wout[BT]) = 1
    /\ wout[BT][1] = RNil \/ wout[BT][1].t = "Array"

\* The entries of s appended after the XREAD was issued.
AppendedSinceCall ==
  SubSeq(keyspace["s"].stream, xcall + 1, Len(keyspace["s"].stream))

\* C5: XREAD BLOCK 0 STREAMS s $ issued before an XADD to s blocks (its
\* connection is not ended), is not left parked once s holds an entry
\* appended after the call, replies only after such an entry exists, and
\* replies with entries appended after the call, as [[s, [[id, [f, v]]]]].
C5_XreadDollarBlocksUntilNextXadd ==
  /\ wpc[XR] # "aborted"
  /\ ~(wpc[XR] = "waiting" /\ ~wwoken[XR] /\ AppendedSinceCall # <<>>)
  /\ wout[XR] # <<>> =>
       /\ Len(wout[XR]) = 1
       /\ AppendedSinceCall # <<>>
       /\ \E n \in 1..Len(AppendedSinceCall) :
            wout[XR][1] =
              RArr(<<RArr(<<RBulk("s"),
                     RArr(EncodeStream(SubSeq(AppendedSinceCall, 1, n)))>>)>>)

\* ---------------------------------------------------------------- ReplSpec

ReplKeys == {"k", "c", "s"}

\* PX argument of the SET ... PX form the clients send.
SetPx == 100

\* Commands a client of ReplSpec may send as the n-th command overall; the
\* value of a SET names the command, so every SET frame is distinct.
ReplCmds(n) ==
  { CSet("k", "v" \o IntToStr(n), NoPx), CSet("k", "v" \o IntToStr(n), SetPx),
    CIncr("c"), CXadd("s", "1-1"), CWait(1, PollInterval) }

ReplInit ==
  /\ keyspace = [k \in ReplKeys |-> Missing]
  /\ log = <<>>
  /\ registry = [a \in Conns |-> NoReplica]
  /\ now = 1
  /\ mode = "Normal"
  /\ queued = <<>>
  /\ channels = <<>>
  /\ out = <<>>
  /\ conn = "open"
  /\ cmd = CNone
  /\ nsent = 0
  /\ BlockIdle
  /\ ReplIdle
  /\ FanIdle
  /\ PubIdle
  /\ PipeIdle
  /\ ZsetIdle
  /\ CodecIdle
  /\ RdbIdle
  /\ MailIdle
  /\ TxnIdle
  /\ HsIdle

\* The handler task of client c reads its next command.
Issue(c, cm) ==
  /\ clients[c].pc = "idle"
  /\ nops < MaxOps
  /\ cm \in ReplCmds(nops + 1)
  /\ nops' = nops + 1

\* The handler task of client c moves to pc, keeping its command.
Goto(c, pc) == clients' = [clients EXCEPT ![c].pc = pc]

\* The handler task of client c has produced its result.
Finish(c, resp) ==
  /\ clients' = [clients EXCEPT ![c] = IdleClient]
  /\ cout' = [cout EXCEPT ![c] = Append(@, resp)]

\* A command changed the keyspace: its frame, and whether a connected
\* replica was registered to receive it.
Applies(frame) ==
  /\ applied' = Append(applied, frame)
  /\ owed' = IF registry[R1].present /\ rconn = "connected"
               THEN owed + 1 ELSE owed

\* send_to_replicas(command) under the manager lock.
FanOut(cm) ==
  /\ CanSendToReplicas(registry)
  /\ registry' = SendToReplicas(registry, cm)
  /\ enq' = IF registry[R1].present THEN Append(enq, cm) ELSE enq

\* set_command: store.set
SetApply(c, cm) ==
  /\ Issue(c, cm)
  /\ cm.op = "SET"
  /\ keyspace' = Store_set(keyspace, cm.key, cm.val, cm.px, now)
  /\ Applies(Frame(cm))
  /\ clients' = [clients EXCEPT ![c] = [IdleClient EXCEPT !.pc = "set_log",
                                                         !.cmd = cm]]
  /\ UNCHANGED <<log, registry, cout, rconn, wire, rpos, rstore, rlog, ackq,
                 handed, enq, joinedAt, notRepl>>

\* set_command: store.append_to_log(bytes)
SetLog(c) ==
  /\ clients[c].pc = "set_log"
  /\ log' = Append(log, Frame(clients[c].cmd))
  /\ Goto(c, "set_fanout")
  /\ UNCHANGED <<keyspace, registry, cout, rconn, wire, rpos, rstore, rlog,
                 ackq, applied, handed, enq, owed, joinedAt, nops, notRepl>>

\* set_command: manager.lock(), send_to_replicas(Set {key, value, px}), OK
SetFanout(c) ==
  /\ clients[c].pc = "set_fanout"
  /\ FanOut(clients[c].cmd)
  /\ handed' = Append(handed, clients[c].cmd)
  /\ Finish(c, RSimple("OK"))
  /\ UNCHANGED <<keyspace, log, rconn, wire, rpos, rstore, rlog, ackq,
                 applied, owed, joinedAt, nops, notRepl>>

\* process_command, Incr arm: store.incr and nothing else.
IncrCommand(c, cm) ==
  /\ Issue(c, cm)
  /\ cm.op = "INCR"
  /\ LET r == Store_incr(keyspace, cm.key) IN
       /\ keyspace' = r.ks
       /\ IF r.resp.t = "Int" THEN Applies(Frame(cm))
          ELSE UNCHANGED <<applied, owed>>
       /\ Finish(c, r.resp)
  /\ UNCHANGED <<log, registry, rconn, wire, rpos, rstore, rlog, ackq, handed,
                 enq, joinedAt, notRepl>>

\* xadd_command: store.append_to_log(bytes), before the id is validated.
XaddLog(c, cm) ==
  /\ Issue(c, cm)
  /\ cm.op = "XADD"
  /\ log' = Append(log, Frame(cm))
  /\ clients' = [clients EXCEPT ![c] = [IdleClient EXCEPT !.pc = "xadd_apply",
                                                         !.cmd = cm]]
  /\ UNCHANGED <<keyspace, registry, cout, rconn, wire, rpos, rstore, rlog,
                 ackq, applied, handed, enq, owed, joinedAt, notRepl>>

\* xadd_command: store.xadd; an Err becomes an error reply.
XaddApply(c) ==
  /\ clients[c].pc = "xadd_apply"
  /\ LET cm == clients[c].cmd
         r == Store_xadd(keyspace, cm.key, cm.id, cm.val, now) IN
       /\ keyspace' = r.ks
       /\ IF r.status = "ok" THEN Applies(Frame(cm))
          ELSE UNCHANGED <<applied, owed>>
       /\ Finish(c, IF r.status = "ok" THEN RBulk(IdStr(r.id))
                    ELSE RErr("ERR The ID specified in XADD is invalid"))
  /\ UNCHANGED <<log, registry, rconn, wire, rpos, rstore, rlog, ackq, handed,
                 enq, joinedAt, nops, notRepl>>

\* wait_command: offset = store.get_offset(), elapsed = 0
WaitOffset(c, cm) ==
  /\ Issue(c, cm)
  /\ cm.op = "WAIT"
  /\ clients' = [clients EXCEPT ![c] = [pc |-> "wait_getack", cmd |-> cm,
                                        offset |-> LogLen(log), elapsed |-> 0]]
  /\ UNCHANGED <<keyspace, log, registry, cout, rconn, wire, rpos, rstore,
                 rlog, ackq, applied, handed, enq, owed, joinedAt, notRepl>>

\* wait_command: send_to_replicas(REPLCONF GETACK *)
WaitGetack(c) ==
  /\ clients[c].pc = "wait_getack"
  /\ FanOut(CGetack)
  /\ Goto(c, "wait_poll")
  /\ UNCHANGED <<keyspace, log, cout, rconn, wire, rpos, rstore, rlog, ackq,
                 applied, handed, owed, joinedAt, nops, notRepl>>

\* wait_command, loop head: acked = replica_count(offset); reply acked when
\* acked >= required_replicas or elapsed >= timeout_ms, else sleep.
WaitPoll(c) ==
  /\ clients[c].pc = "wait_poll"
  /\ LET acked == ReplicaCount(registry, clients[c].offset) IN
       IF acked >= clients[c].cmd.n \/ clients[c].elapsed >= clients[c].cmd.px
         THEN Finish(c, RInt(acked))
       ELSE Goto(c, "wait_sleep") /\ UNCHANGED cout
  /\ UNCHANGED <<keyspace, log, registry, rconn, wire, rpos, rstore, rlog,
                 ackq, applied, handed, enq, owed, joinedAt, nops, notRepl>>

\* wait_command: sleep(poll_interval); elapsed += poll_interval
WaitSleep(c) ==
  /\ clients[c].pc = "wait_sleep"
  /\ clients' = [clients EXCEPT ![c].pc = "wait_poll",
                                ![c].elapsed = @ + PollInterval]
  /\ UNCHANGED <<keyspace, log, registry, cout, rconn, wire, rpos, rstore,
                 rlog, ackq, applied, handed, enq, owed, joinedAt, nops,
                 notRepl>>

\* A replica connects and sends PSYNC: psync_command registers it.
ReplicaConnect ==
  /\ rconn = "none"
  /\ rconn' = "connected"
  /\ registry' = AddReplica(registry, R1)
  /\ joinedAt' = Len(applied)
  /\ UNCHANGED <<keyspace, log, clients, cout, wire, rpos, rstore, rlog, ackq,
                 applied, handed, enq, owed, nops, notRepl>>

\* The replica's connection drops: psync_command's read loop ends. The map
\* entry, its channel and its drain task stay.
ReplicaDisconnect ==
  /\ rconn = "connected"
  /\ rconn' = "gone"
  /\ ackq' = <<>>
  /\ UNCHANGED <<keyspace, log, registry, clients, cout, wire, rpos, rstore,
                 rlog, applied, handed, enq, owed, joinedAt, nops, notRepl>>

\* Replica::new drain task: rx.recv(), then framed.send of the re-encoded
\* command; a failed write is ignored.
Drain ==
  /\ registry[R1].present
  /\ registry[R1].q # <<>>
  /\ LET f == DrainEncode(Head(registry[R1].q)) IN
       wire' = IF f # <<>> /\ rconn = "connected" THEN Append(wire, f) ELSE wire
  /\ registry' = [registry EXCEPT ![R1].q = Tail(@)]
  /\ UNCHANGED <<keyspace, log, clients, cout, rconn, rpos, rstore, rlog, ackq,
                 applied, handed, enq, owed, joinedAt, nops, notRepl>>

\* handle_replication_connection on the replica: SET is applied and its
\* bytes logged; GETACK * is answered with the current offset and then its
\* bytes are logged.
ReplicaStep ==
  /\ rconn = "connected"
  /\ rpos < Len(wire)
  /\ LET f == wire[rpos + 1] IN
       /\ rstore' = IF f[1] = "SET" THEN f[3] ELSE rstore
       /\ ackq' = IF f[1] = "REPLCONF" THEN Append(ackq, LogLen(rlog)) ELSE ackq
       /\ rlog' = Append(rlog, f)
  /\ rpos' = rpos + 1
  /\ UNCHANGED <<keyspace, log, registry, clients, cout, rconn, wire, applied,
                 handed, enq, owed, joinedAt, nops, notRepl>>

\* send_heartbeat on the replica: REPLCONF ACK <offset> on a tick. It takes
\* the mutex on the connection that setup_master_listener holds for the whole
\* of its loop, so a heartbeat goes out only before the listener has started.
Heartbeat ==
  /\ rconn = "connected"
  /\ rpos = 0
  /\ Len(ackq) < MaxAcks
  /\ ackq' = Append(ackq, LogLen(rlog))
  /\ UNCHANGED <<keyspace, log, registry, clients, cout, rconn, wire, rpos,
                 rstore, rlog, applied, handed, enq, owed, joinedAt, nops,
                 notRepl>>

\* psync_command's read loop: REPLCONF ACK <offset> -> update_offset
PrimaryRecvAck ==
  /\ rconn = "connected"
  /\ ackq # <<>>
  /\ registry' = UpdateOffset(registry, R1, Head(ackq))
  /\ ackq' = Tail(ackq)
  /\ UNCHANGED <<keyspace, log, clients, cout, rconn, wire, rpos, rstore, rlog,
                 applied, handed, enq, owed, joinedAt, nops, notRepl>>

ReplNext ==
  \/ \E c \in Clients, cm \in ReplCmds(nops + 1) : SetApply(c, cm)
  \/ \E c \in Clients, cm \in ReplCmds(nops + 1) : IncrCommand(c, cm)
  \/ \E c \in Clients, cm \in ReplCmds(nops + 1) : XaddLog(c, cm)
  \/ \E c \in Clients, cm \in ReplCmds(nops + 1) : WaitOffset(c, cm)
  \/ \E c \in Clients :
       \/ SetLog(c)
       \/ SetFanout(c)
       \/ XaddApply(c)
       \/ WaitGetack(c)
       \/ WaitPoll(c)
       \/ WaitSleep(c)
  \/ ReplicaConnect
  \/ ReplicaDisconnect
  \/ Drain
  \/ ReplicaStep
  \/ Heartbeat
  \/ PrimaryRecvAck

ReplSpec == ReplInit /\ [][ReplNext]_vars

\* ---------------------------------------------------- claims under ReplSpec

\* Every client handler is between commands.
AllIdle == \A c \in Clients : clients[c].pc = "idle"

\* Nothing is in progress on the primary and the replica has processed all
\* that was written to its socket.
Quiescent ==
  /\ AllIdle
  /\ registry[R1].q = <<>>
  /\ rpos = Len(wire)

\* Where a frame stands in a sequence of distinct frames.
PosIn(frames, f) == CHOOSE i \in 1..Len(frames) : frames[i] = f

\* Frames on the replica's socket that carry a mutating command.
RECURSIVE MutationsOn(_)
MutationsOn(frames) ==
  IF frames = <<>> THEN 0
  ELSE (IF Head(frames)[1] = "REPLCONF" THEN 0 ELSE 1) + MutationsOn(Tail(frames))

\* Replicas whose connection is up.
NumConnected == IF rconn = "connected" THEN 1 ELSE 0

\* C6: the SETs of concurrent clients are put on the replica's outbound
\* queue in the order in which they were applied to the primary's keyspace,
\* so that once the queues have drained a replica that was there from the
\* start holds the primary's value of the key.
C6_ReplicaSeesApplyOrder ==
  /\ \A i, j \in 1..Len(enq) :
       (i < j /\ enq[i].op = "SET" /\ enq[j].op = "SET")
         => PosIn(applied, Frame(enq[i])) < PosIn(applied, Frame(enq[j]))
  /\ (Quiescent /\ rconn = "connected" /\ joinedAt = 0
      /\ keyspace["k"].type = "Text")
       => rstore = keyspace["k"].text

\* C7: once a replica has processed everything the primary has recorded in
\* its replication log, the replica's own log length (the offset it
\* acknowledges) is the primary's log length, whatever form the commands had
\* and whenever the replica joined.
C7_ReplicaOffsetIsPrimaryPrefixLength ==
  (Quiescent /\ rconn = "connected") => LogLen(rlog) = LogLen(log)

\* C8: WAIT replies with an integer c, 0 <= c <= the number of replicas
\* connected at that moment.
C8_WaitCountWithinConnected ==
  [][\A c \in Clients :
       (clients[c].pc = "wait_poll" /\ clients'[c].pc = "idle")
         => /\ cout'[c][Len(cout'[c])].t = "Int"
            /\ cout'[c][Len(cout'[c])].n >= 0
            /\ cout'[c][Len(cout'[c])].n <= NumConnected]_vars

\* C9: when no command is in progress the primary's replication log holds
\* exactly the raw frames of the mutating commands that were applied, in
\* apply order (so its length is the sum of their byte lengths); commands
\* that were rejected and read-only commands added nothing.
C9_LogIsAppliedMutations ==
  AllIdle => /\ log = applied
             /\ LogLen(log) = LogLen(applied)

\* C10: every mutating command that was applied has been handed to the
\* replication manager, and once the queues have drained it has been written
\* to the socket of a replica that was connected when it was applied.
C10_MutationsReachReplicas ==
  /\ AllIdle =>
       \A i \in 1..Len(applied) :
         \E j \in 1..Len(handed) : Frame(handed[j]) = applied[i]
  /\ (Quiescent /\ rconn = "connected") => MutationsOn(wire) >= owed

\* ----------------------------------------------------------------- FanSpec

\* SETs the writers of FanSpec send: enough to fill a replica's channel and
\* have senders left over.
MaxFanSets == 34

\* The connection that registers as a second replica while FanSpec runs.
LateReplica == "c2"

\* What FanSpec leaves alone.
notFan == <<now, sessVars, blockVars, cout, wire, rpos, rstore, rlog, applied,
            handed, enq, owed, joinedAt, nops, pubVars, pipeVars,
   zsetVars,
   codecVars,
   rdbVars,
   mailVars,
   txnVars,
   hsVars>>

\* The SET every writer of FanSpec sends.
FanSet == CSet("k", "v", NoPx)

\* A replica is registered and connected, and no command has been sent.
FanInit ==
  /\ keyspace = [k \in ReplKeys |-> Missing]
  /\ log = <<>>
  /\ registry = AddReplica([a \in Conns |-> NoReplica], R1)
  /\ now = 1
  /\ mode = "Normal"
  /\ queued = <<>>
  /\ channels = <<>>
  /\ out = <<>>
  /\ conn = "open"
  /\ cmd = CNone
  /\ nsent = 0
  /\ BlockIdle
  /\ clients = [c \in Clients |-> IdleClient]
  /\ cout = [c \in Clients |-> <<>>]
  /\ rconn = "connected"
  /\ wire = <<>>
  /\ rpos = 0
  /\ rstore = ""
  /\ rlog = <<>>
  /\ ackq = <<>>
  /\ applied = <<>>
  /\ handed = <<>>
  /\ enq = <<>>
  /\ owed = 0
  /\ joinedAt = 0
  /\ nops = 0
  /\ FanIdle
  /\ PubIdle
  /\ PipeIdle
  /\ ZsetIdle
  /\ CodecIdle
  /\ RdbIdle
  /\ MailIdle
  /\ TxnIdle
  /\ HsIdle

\* set_command: store.set and store.append_to_log
FanSetStore(c) ==
  /\ clients[c].pc = "idle"
  /\ ~registry[c].present       \* not inside psync_command
  /\ Len(log) < MaxFanSets
  /\ keyspace' = Store_set(keyspace, FanSet.key, FanSet.val, FanSet.px, now)
  /\ log' = Append(log, Frame(FanSet))
  /\ clients' = [clients EXCEPT ![c] = [IdleClient EXCEPT !.pc = "fan_lock",
                                                         !.cmd = FanSet]]
  /\ UNCHANGED <<registry, rconn, ackq, mlock, notFan>>

\* set_command: let guard = manager.lock().await
FanLock(c) ==
  /\ clients[c].pc = "fan_lock"
  /\ mlock = "free"
  /\ mlock' = c
  /\ Goto(c, "fan_send")
  /\ UNCHANGED <<keyspace, log, registry, rconn, ackq, notFan>>

\* set_command: guard.send_to_replicas(..).await completes, which needs a
\* free slot in every replica's channel; the guard is dropped on return.
FanSend(c) ==
  /\ clients[c].pc = "fan_send"
  /\ mlock = c
  /\ CanSendToReplicas(registry)
  /\ registry' = SendToReplicas(registry, clients[c].cmd)
  /\ mlock' = "free"
  /\ clients' = [clients EXCEPT ![c] = IdleClient]
  /\ UNCHANGED <<keyspace, log, rconn, ackq, notFan>>

\* Replica::new drain task of a replica: one command leaves its channel.
FanDrain(r) ==
  /\ registry[r].present
  /\ registry[r].q # <<>>
  /\ registry' = [registry EXCEPT ![r].q = Tail(@)]
  /\ UNCHANGED <<keyspace, log, clients, rconn, ackq, mlock, notFan>>

\* psync_command on another connection: manager.lock().await.add_replica
FanRegister ==
  /\ mlock = "free"
  /\ ~registry[LateReplica].present
  /\ clients[LateReplica].pc = "idle"
  /\ registry' = AddReplica(registry, LateReplica)
  /\ UNCHANGED <<keyspace, log, clients, rconn, ackq, mlock, notFan>>

\* The slow replica, which has processed nothing yet, sends REPLCONF ACK
\* with its offset.
FanAckSent ==
  /\ Len(ackq) < MaxAcks
  /\ ackq' = Append(ackq, LogLen(rlog))
  /\ UNCHANGED <<keyspace, log, registry, clients, rconn, mlock, notFan>>

\* psync_command's read loop: manager.lock().await.update_offset
FanRecordAck ==
  /\ mlock = "free"
  /\ ackq # <<>>
  /\ registry' = UpdateOffset(registry, R1, Head(ackq))
  /\ ackq' = Tail(ackq)
  /\ UNCHANGED <<keyspace, log, clients, rconn, mlock, notFan>>

FanNext ==
  \/ \E c \in Clients : FanSetStore(c)
  \/ \E c \in Clients : FanLock(c)
  \/ \E c \in Clients : FanSend(c)
  \/ \E r \in {R1, LateReplica} : FanDrain(r)
  \/ FanRegister
  \/ FanAckSent
  \/ FanRecordAck

FanSpec == FanInit /\ [][FanNext]_vars

\* A sender that holds the manager lock and cannot complete its send.
BlockedSender(c) ==
  /\ clients[c].pc = "fan_send"
  /\ mlock = c
  /\ ~CanSendToReplicas(registry)

\* C11: a full outbound queue never leaves the manager lock in the hands of a
\* sender that is blocked on it, so registering a replica, recording an ACK
\* and the next client's fan-out can still take the lock.
C11_FullQueueNeverHoldsRegistry ==
  \A c \in Clients : ~BlockedSender(c)

\* ----------------------------------------------- more claims under ReplSpec

\* C12: a replica's descriptor is in the registry only while its connection
\* is up: once the connection has dropped and no handler is in progress the
\* replica is no longer registered, so it gets no fan-out and is not counted.
C12_GoneReplicaIsRemoved ==
  (rconn = "gone" /\ AllIdle) =>
    /\ ~registry[R1].present
    /\ ReplicaCount(registry, 0) = 0

\* ------------------------------------------------------------------ PubSpec
\* One connection in Normal mode that publishes (its conn, out and nsent are
\* the session variables) and the subscriber connections of Subs.

MaxPubs == 3
MaxSubCmds == 2

PubChannel == "news"

notPub == <<log, registry, now, mode, queued, channels, cmd, blockVars,
            replVars, fanVars, pipeVars,
   zsetVars,
   codecVars,
   rdbVars,
   mailVars,
   txnVars,
   hsVars>>

PubInit ==
  /\ keyspace = [k \in {ChanKey(PubChannel)} |-> Missing]
  /\ log = <<>>
  /\ registry = [a \in Conns |-> NoReplica]
  /\ now = 1
  /\ mode = "Normal"
  /\ queued = <<>>
  /\ channels = <<>>
  /\ out = <<>>
  /\ conn = "open"
  /\ cmd = CNone
  /\ nsent = 0
  /\ BlockIdle
  /\ ReplIdle
  /\ FanIdle
  /\ PubIdle
  /\ PipeIdle
  /\ ZsetIdle
  /\ CodecIdle
  /\ RdbIdle
  /\ MailIdle
  /\ TxnIdle
  /\ HsIdle

\* A subscriber's task reads a frame from its socket.
SubRecv(s) ==
  /\ subs[s].task = "running"
  /\ subs[s].sock = "open"
  /\ subs[s].n < MaxSubCmds

\* SUBSCRIBE ch in Normal mode (handle_normal_mode: the mode becomes
\* Subscribed and run_subscribed_loop subscribes) or in Subscribed mode
\* (handle_subscribed_mode): subscribe_to_channel.
SubSubscribe(s, ch) ==
  /\ SubRecv(s)
  /\ keyspace' = Store_subscribe(keyspace, ch, s)
  /\ subs' = [subs EXCEPT
       ![s].mode = "Subscribed",
       ![s].channels = Append(@, ch),
       ![s].want = @ \cup {ch},
       ![s].got = Append(@, RArr(<<RBulk("subscribe"), RBulk(ch),
                                  RInt(Len(subs[s].channels) + 1)>>)),
       ![s].n = @ + 1]
  /\ UNCHANGED <<out, conn, nsent>>
  /\ UNCHANGED notPub

\* UNSUBSCRIBE ch in Subscribed mode: unsubscribe_from_channel.
SubUnsubscribe(s, ch) ==
  LET old == subs[s].channels
      left == IF old = <<>> THEN <<>> ELSE SubSeq(old, 1, Len(old) - 1) IN
  /\ SubRecv(s)
  /\ subs[s].mode = "Subscribed"
  /\ keyspace' = Store_unsubscribe(keyspace, ch, s)
  /\ subs' = [subs EXCEPT
       ![s].channels = left,
       ![s].want = @ \ {ch},
       ![s].got = Append(@, RArr(<<RBulk("unsubscribe"), RBulk(ch),
                                  RInt(Len(left))>>)),
       ![s].n = @ + 1]
  /\ UNCHANGED <<out, conn, nsent>>
  /\ UNCHANGED notPub

\* The subscriber sends a command try_from_resp does not know (QUIT):
\* `try_from_resp(..)?` returns the error out of handle_master_connection or
\* run_subscribed_loop, the task ends and Client (socket and rx) is dropped.
\* Nothing unsubscribes: the Sender stays in the channel's subscriber map.
SubUnparsable(s) ==
  /\ SubRecv(s)
  /\ subs' = [subs EXCEPT ![s].task = "ended", ![s].sock = "closed",
                          ![s].want = {}, ![s].n = @ + 1]
  /\ UNCHANGED <<keyspace, out, conn, nsent>>
  /\ UNCHANGED notPub

\* The peer closes its socket.  In Normal mode framed.next() yields None and
\* handle_master_connection returns.  In run_subscribed_loop the select!
\* disables the framed.next() branch and keeps waiting on client.rx.recv(),
\* which cannot yield None while Client.tx is alive: the task stays.
SubClose(s) ==
  /\ subs[s].task = "running"
  /\ subs[s].sock = "open"
  /\ subs' = [subs EXCEPT
       ![s].sock = "closed",
       ![s].want = {},
       ![s].task = IF subs[s].mode = "Subscribed" THEN "running" ELSE "ended"]
  /\ UNCHANGED <<keyspace, out, conn, nsent>>
  /\ UNCHANGED notPub

\* run_subscribed_loop, rx branch: `client.framed.send(msg).await?`.  On an
\* open socket the peer gets the message.  On a socket the peer has closed
\* the write is either taken by the kernel (and lost) or fails, and the
\* failure ends the task.
SubForward(s, fails) ==
  /\ subs[s].task = "running"
  /\ subs[s].mode = "Subscribed"
  /\ subs[s].inbox # <<>>
  /\ fails => subs[s].sock = "closed"
  /\ subs' = [subs EXCEPT
       ![s].inbox = Tail(@),
       ![s].got = IF subs[s].sock = "open" THEN Append(@, Head(subs[s].inbox))
                  ELSE @,
       ![s].task = IF fails THEN "ended" ELSE @]
  /\ UNCHANGED <<keyspace, out, conn, nsent>>
  /\ UNCHANGED notPub

\* The message send_to_channel builds.
Message(ch, m) == RArr(<<RBulk("message"), RBulk(ch), RBulk(m)>>)

\* Subscribers in the channel's map whose Receiver has been dropped.
DeadTx(ks, ch) == {s \in ks[ChanKey(ch)].clients : subs[s].task = "ended"}

\* handle_normal_mode on PUBLISH ch m: process_command's Publish arm is
\* `send_to_channel(ch, m).await?`, then the integer reply.
\* send_to_channel takes size = clients.len() and sends to every Sender in
\* the map's iteration order; `tx.send(..).await?` fails on a Sender whose
\* Receiver is gone, after the Senders in `before` have been served.  The
\* error goes up through process_command and handle_normal_mode and ends the
\* publisher's connection task without a reply.
Publish(ch, before) ==
  LET k == ChanKey(ch)
      m == IntToStr(nsent + 1)
      cl == IF keyspace[k].type = "Channel" THEN keyspace[k].clients ELSE {}
      dead == DeadTx(keyspace, ch) \cap cl
      served == IF dead = {} THEN cl ELSE before IN
  /\ conn = "open"
  /\ nsent < MaxPubs
  /\ before \subseteq cl \ dead
  /\ dead = {} => before = cl
  /\ nsent' = nsent + 1
  /\ subs' = [s \in Subs |->
       IF s \in served THEN [subs[s] EXCEPT !.inbox = Append(@, Message(ch, m))]
       ELSE subs[s]]
  /\ IF dead = {}
       THEN /\ out' = Append(out, RInt(Cardinality(cl)))
            /\ conn' = conn
       ELSE /\ out' = out
            /\ conn' = "closed"
  /\ UNCHANGED keyspace
  /\ UNCHANGED notPub

PubNext ==
  \/ \E s \in Subs : SubSubscribe(s, PubChannel)
  \/ \E s \in Subs : SubUnsubscribe(s, PubChannel)
  \/ \E s \in Subs : SubUnparsable(s)
  \/ \E s \in Subs : SubClose(s)
  \/ \E s \in Subs, fails \in BOOLEAN : SubForward(s, fails)
  \/ \E before \in SUBSET Subs : Publish(PubChannel, before)

PubSpec == PubInit /\ [][PubNext]_vars

\* C13: a subscriber that has disconnected or failed never costs the
\* publisher its connection or a reply: the publishing connection stays open
\* and every PUBLISH it has sent has been answered with an integer.
C13_PublisherSurvivesSubscriberFault ==
  /\ conn = "open"
  /\ Len(out) = nsent
  /\ \A i \in 1..Len(out) : out[i].t = "Int"

\* Clients that are subscribed to ch: connected, and ch is among the
\* channels they asked for.
SubscribedTo(ch) == {s \in Subs : subs[s].sock = "open" /\ ch \in subs[s].want}

\* C14: a PUBLISH puts exactly one message for each subscribed client, none
\* for any other client, and replies the number of subscribed clients.
C14_PublishReachesExactlySubscribers ==
  [][nsent' = nsent + 1 =>
       /\ out' = Append(out, RInt(Cardinality(SubscribedTo(PubChannel))))
       /\ \A s \in Subs :
            subs'[s].inbox =
              IF s \in SubscribedTo(PubChannel)
                THEN Append(subs[s].inbox,
                            Message(PubChannel, IntToStr(nsent + 1)))
              ELSE subs[s].inbox]_vars

\* ------------------------------------------- more claims under SessionSpec

\* The session loop takes command c off the socket in this step.
Receives(c) == nsent' = nsent + 1 /\ cmd' = c

\* C15: in Subscribed mode a command other than SUBSCRIBE, UNSUBSCRIBE, PING
\* and QUIT gets an error reply, changes nothing in the keyspace and leaves
\* the session Subscribed and connected; PING gets ["pong", ""]; QUIT is
\* accepted: it is answered and not failed as an unknown command.
C15_SubscribedModeCommands ==
  [][\A c \in SessionCmds :
       (mode = "Subscribed" /\ conn = "open" /\ Receives(c)) =>
         /\ c.op \notin {"SUBSCRIBE", "UNSUBSCRIBE", "PING", "QUIT"} =>
              /\ Len(out') = Len(out) + 1
              /\ out'[Len(out')].t = "Error"
              /\ keyspace' = keyspace
              /\ mode' = "Subscribed"
              /\ conn' = "open"
         /\ c.op = "PING" =>
              out' = Append(out, RArr(<<RBulk("pong"), RBulk("")>>))
         /\ c.op = "QUIT" =>
              /\ Len(out') = Len(out) + 1
              /\ out'[Len(out')].t # "Error"]_vars

\* Channels whose subscriber map holds this connection, in keyspace ks.
SubscribedChannels(ks) ==
  {ch \in {"news"} : ks[ChanKey(ch)].type = "Channel"
                     /\ Self \in ks[ChanKey(ch)].clients}

\* The reply written in this step, if it is a subscribe or unsubscribe reply.
SubReplyWritten ==
  /\ Len(out') = Len(out) + 1
  /\ out'[Len(out')].t = "Array"
  /\ Len(out'[Len(out')].a) = 3
  /\ out'[Len(out')].a[1].s \in {"subscribe", "unsubscribe"}

\* C16: the integer of every subscribe and unsubscribe reply is the number
\* of distinct channels the client is subscribed to after the operation, and
\* the session's channel list names exactly the channels whose subscriber map
\* holds the client.
C16_ChannelCountAndListMatchTheMaps ==
  [][/\ SubReplyWritten =>
          out'[Len(out')].a[3].n = Cardinality(SubscribedChannels(keyspace'))
     /\ {channels'[i] : i \in 1..Len(channels')} = SubscribedChannels(keyspace')
    ]_vars

\* C17: a MULTI received in Multi mode is answered with an error, the
\* session stays in Multi mode and the queue is left as it was.
C17_NestedMultiIsAnError ==
  [][(mode = "Multi" /\ conn = "open" /\ Receives(CMulti)) =>
       /\ Len(out') = Len(out) + 1
       /\ out'[Len(out')].t = "Error"
       /\ mode' = "Multi"
       /\ queued' = queued]_vars

\* C18: DISCARD in Multi mode empties the queue, answers OK, returns to
\* Normal mode and runs nothing; the queue is empty whenever the session is
\* in Normal mode, so a later EXEC cannot run a discarded command; EXEC and
\* DISCARD in Normal mode get an error reply and change nothing.
C18_DiscardDropsTheQueue ==
  [][/\ (mode = "Multi" /\ conn = "open" /\ Receives(CDiscard)) =>
          /\ queued' = <<>>
          /\ mode' = "Normal"
          /\ out' = Append(out, RSimple("OK"))
          /\ UNCHANGED <<keyspace, log, registry, channels, conn>>
     /\ (mode' = "Normal" /\ conn' = "open") => queued' = <<>>
     /\ \A c \in {CExec, CDiscard} :
          (mode = "Normal" /\ conn = "open" /\ Receives(c)) =>
            /\ Len(out') = Len(out) + 1
            /\ out'[Len(out')].t = "Error"
            /\ UNCHANGED <<keyspace, log, registry, mode, queued, channels,
                           conn>>
    ]_vars

\* A DISCARD has dropped a queue that held a command, and an EXEC sent later
\* in Normal mode has been answered with an error.
C18_DiscardedThenExec ==
  /\ Len(out) = 4
  /\ out[1] = RSimple("OK")
  /\ out[2] = RBulk("QUEUED")
  /\ out[3] = RSimple("OK")
  /\ out[4].t = "Error"
  /\ cmd = CExec
  /\ mode = "Normal"
  /\ queued = <<>>
  /\ keyspace["c"] = Missing

\* ---------------------------------------------------------------- OrderSpec
\* One connection whose peer writes commands without waiting for replies
\* (keyspace, mode, queued, out, conn, cmd and nsent are the session's), and
\* another connection that pushes to the list the first one blocks on.

MaxPipe == 4

PipeKeys == {"c", "l"}

\* Commands the pipelining peer sends.
PipeCmds == {CPing, CMulti, CExec, CDiscard, CIncr("c"), CBlpop("l", 0)}

notOrder == <<log, registry, now, channels, blockVars, replVars, fanVars,
              pubVars, zsetVars,
   codecVars,
   rdbVars,
   mailVars,
   txnVars,
   hsVars>>

OrderInit ==
  /\ keyspace = [k \in PipeKeys |-> Missing]
  /\ log = <<>>
  /\ registry = [a \in Conns |-> NoReplica]
  /\ now = 1
  /\ mode = "Normal"
  /\ queued = <<>>
  /\ channels = <<>>
  /\ out = <<>>
  /\ conn = "open"
  /\ cmd = CNone
  /\ nsent = 0
  /\ BlockIdle
  /\ ReplIdle
  /\ FanIdle
  /\ PubIdle
  /\ PipeIdle
  /\ ZsetIdle
  /\ CodecIdle
  /\ RdbIdle
  /\ MailIdle
  /\ TxnIdle
  /\ HsIdle

\* The peer writes one more command to its socket; it sends BLPOP only
\* outside its own MULTI .. EXEC.
PipeSend(c) ==
  /\ conn = "open"
  /\ nsent < MaxPipe
  /\ c.op = "BLPOP" => ~pipe.txn
  /\ nsent' = nsent + 1
  /\ pipe' = [pipe EXCEPT
       !.inq = Append(@, [c |-> c, i |-> nsent + 1]),
       !.txn = IF c.op = "MULTI" THEN TRUE
               ELSE IF c.op \in {"EXEC", "DISCARD"} THEN FALSE ELSE @]
  /\ UNCHANGED <<keyspace, mode, queued, out, conn, cmd>>
  /\ UNCHANGED notOrder

\* handle_master_connection: `while let Some(result) = framed.next().await`
\* yields the next frame only when the previous handler has returned.
NextFrame ==
  /\ conn = "open"
  /\ ~pipe.busy
  /\ pipe.inq # <<>>
  /\ cmd' = Head(pipe.inq).c

\* client.framed.send(response): the reply and the position of the command
\* it answers; nothing is written for Ok(None).
Written(p, i, resp) ==
  /\ out' = IF resp = NoReply THEN out ELSE Append(out, resp)
  /\ pipe' = IF resp = NoReply THEN p
             ELSE [p EXCEPT !.tags = Append(@, i)]

\* handle_normal_mode, Multi arm
ServeMulti ==
  LET h == Head(pipe.inq) IN
  /\ NextFrame
  /\ mode = "Normal"
  /\ h.c.op = "MULTI"
  /\ mode' = "Multi"
  /\ Written([pipe EXCEPT !.inq = Tail(@)], h.i, RSimple("OK"))
  /\ UNCHANGED <<keyspace, queued, conn, nsent>>
  /\ UNCHANGED notOrder

\* handle_normal_mode, `_` arm, for a command that does not block
ServeNormal ==
  LET h == Head(pipe.inq)
      r == ProcessCommand(h.c, keyspace, log, registry, now) IN
  /\ NextFrame
  /\ mode = "Normal"
  /\ h.c.op \notin {"MULTI", "BLPOP"}
  /\ keyspace' = r.ks
  /\ conn' = IF r.err THEN "closed" ELSE conn
  /\ Written([pipe EXCEPT !.inq = Tail(@)], h.i,
             IF r.err THEN NoReply ELSE r.resp)
  /\ UNCHANGED <<mode, queued, nsent>>
  /\ UNCHANGED notOrder

\* handle_normal_mode, `_` arm, BLPOP: process_command awaits blpop_command,
\* whose first try_poll_lpop either pops an element or finds none; in the
\* second case the handler has not returned (busy is stillBusy = TRUE).
ServeBlpopThen(stillBusy) ==
  LET h == Head(pipe.inq)
      r == PollLpop(keyspace, h.c.key) IN
  /\ NextFrame
  /\ mode = "Normal"
  /\ h.c.op = "BLPOP"
  /\ keyspace' = r.ks
  /\ IF r.resp # NoReply
       THEN Written([pipe EXCEPT !.inq = Tail(@)], h.i, r.resp)
       ELSE /\ out' = out
            /\ pipe' = [pipe EXCEPT !.inq = Tail(@), !.busy = stillBusy,
                                    !.pc = "polled", !.cur = h.i]
  /\ UNCHANGED <<mode, queued, conn, nsent>>
  /\ UNCHANGED notOrder

\* blpop_command run as a task of its own, the session loop reading on.
SpawnedBlpop == ServeBlpopThen(FALSE)

ServeBlpop == ServeBlpopThen(TRUE)

\* blpop_command: get_notifiers, then wait_forever creates the Notified
\* futures and parks in select!.
PipeRegister ==
  /\ pipe.pc = "polled"
  /\ pipe' = [pipe EXCEPT !.pc = "waiting", !.woken = FALSE]
  /\ UNCHANGED <<keyspace, mode, queued, out, conn, cmd, nsent>>
  /\ UNCHANGED notOrder

\* wait_forever: a future completed; try_poll_lpop, then the reply and the
\* return to the session loop, or another round of the loop.
PipeWake ==
  LET r == PollLpop(keyspace, "l") IN
  /\ pipe.pc = "waiting"
  /\ pipe.woken
  /\ keyspace' = r.ks
  /\ IF r.resp # NoReply
       THEN Written([pipe EXCEPT !.busy = FALSE, !.pc = "none",
                                 !.woken = FALSE], pipe.cur, r.resp)
       ELSE /\ out' = out
            /\ pipe' = [pipe EXCEPT !.pc = "polled", !.woken = FALSE]
  /\ UNCHANGED <<mode, queued, conn, cmd, nsent>>
  /\ UNCHANGED notOrder

\* handle_multi_mode, `_` arm
ServeQueue ==
  LET h == Head(pipe.inq) IN
  /\ NextFrame
  /\ mode = "Multi"
  /\ h.c.op \notin {"EXEC", "DISCARD"}
  /\ queued' = Append(queued, [c |-> h.c, bytes |-> Frame(h.c)])
  /\ Written([pipe EXCEPT !.inq = Tail(@)], h.i, RBulk("QUEUED"))
  /\ UNCHANGED <<keyspace, mode, conn, nsent>>
  /\ UNCHANGED notOrder

\* handle_multi_mode, Exec arm
ServeExec ==
  LET h == Head(pipe.inq)
      r == RunQueue(queued, keyspace, log, registry, now, <<>>) IN
  /\ NextFrame
  /\ mode = "Multi"
  /\ h.c.op = "EXEC"
  /\ mode' = "Normal"
  /\ keyspace' = r.ks
  /\ conn' = IF r.err THEN "closed" ELSE conn
  /\ queued' = IF r.err THEN queued ELSE <<>>
  /\ Written([pipe EXCEPT !.inq = Tail(@)], h.i,
             IF r.err THEN NoReply ELSE RArr(r.resps))
  /\ UNCHANGED nsent
  /\ UNCHANGED notOrder

\* handle_multi_mode, Discard arm
ServeDiscard ==
  LET h == Head(pipe.inq) IN
  /\ NextFrame
  /\ mode = "Multi"
  /\ h.c.op = "DISCARD"
  /\ mode' = "Normal"
  /\ queued' = <<>>
  /\ Written([pipe EXCEPT !.inq = Tail(@)], h.i, RSimple("OK"))
  /\ UNCHANGED <<keyspace, conn, nsent>>
  /\ UNCHANGED notOrder

\* Another connection's RPUSH l e: Store::rpush, whose notify_waiters
\* completes the future of a parked blpop_command.
WriterRpush ==
  LET r == Store_rpush(keyspace, "l", <<"e" \o IntToStr(pipe.npush + 1)>>) IN
  /\ pipe.npush < MaxWrites
  /\ keyspace' = r.ks
  /\ pipe' = [pipe EXCEPT
       !.npush = @ + 1,
       !.woken = @ \/ (r.notify /\ pipe.pc = "waiting")]
  /\ UNCHANGED <<mode, queued, out, conn, cmd, nsent>>
  /\ UNCHANGED notOrder

OrderNext ==
  \/ \E c \in PipeCmds : PipeSend(c)
  \/ ServeMulti
  \/ ServeNormal
  \/ ServeBlpop
  \/ PipeRegister
  \/ PipeWake
  \/ ServeQueue
  \/ ServeExec
  \/ ServeDiscard
  \/ WriterRpush

OrderSpec == OrderInit /\ [][OrderNext]_vars

\* C19: on one connection the replies are written in the order the commands
\* were received: each reply answers a later command than the reply before
\* it, in Normal mode, in Multi mode and around a blocking command.
C19_RepliesInCommandOrder ==
  /\ Len(pipe.tags) = Len(out)
  /\ \A a, b \in 1..Len(pipe.tags) : a < b => pipe.tags[a] < pipe.tags[b]

\* A BLPOP that found the list empty has been answered after another
\* connection pushed, after the reply to the command before it, while the
\* command the peer sent behind it is still unread.
C19_BlockedReplyBeforeLaterCommand ==
  /\ pipe.cur = 2
  /\ pipe.tags = <<1, 2>>
  /\ out[2] = RArr(<<RBulk("l"), RBulk("e1")>>)
  /\ pipe.inq # <<>>
  /\ Head(pipe.inq).i = 3
  /\ ~pipe.busy

\* --------------------------------------------------------------- StreamSpec
\* One connection that sends XADD s <id> v with explicit, <ms>-* and * ids
\* (keyspace, log, now, out, cmd and nsent are the session's).

MaxXadds == 3

\* The id arguments sent, and the clock readings SystemTime::now() gives.
StreamGivens == {"0-0", "0-1", "1-0", "1-1", "2-0", "0-*", "1-*", "*", "x"}
ClockReadings == {1, 2}

notStream == <<registry, mode, queued, channels, conn, blockVars, replVars,
               fanVars, pubVars, pipeVars,
   zsetVars,
   codecVars,
   rdbVars,
   mailVars,
   txnVars,
   hsVars>>

StreamInit ==
  /\ keyspace = [k \in {"s"} |-> Missing]
  /\ log = <<>>
  /\ registry = [a \in Conns |-> NoReplica]
  /\ now = 1
  /\ mode = "Normal"
  /\ queued = <<>>
  /\ channels = <<>>
  /\ out = <<>>
  /\ conn = "open"
  /\ cmd = CNone
  /\ nsent = 0
  /\ BlockIdle
  /\ ReplIdle
  /\ FanIdle
  /\ PubIdle
  /\ PipeIdle
  /\ ZsetIdle
  /\ CodecIdle
  /\ RdbIdle
  /\ MailIdle
  /\ TxnIdle
  /\ HsIdle

\* handle_normal_mode on XADD s given v with the clock at t: process_command
\* runs xadd_command (append_to_log, Store::xadd) and the reply is written.
StreamXadd(given, t) ==
  LET c == CXadd("s", given)
      r == ProcessCommand(c, keyspace, log, registry, t) IN
  /\ nsent < MaxXadds
  /\ nsent' = nsent + 1
  /\ cmd' = c
  /\ now' = t
  /\ keyspace' = r.ks
  /\ log' = r.log
  /\ out' = IF r.resp = NoReply THEN out ELSE Append(out, r.resp)
  /\ UNCHANGED notStream

StreamNext == \E given \in StreamGivens, t \in ClockReadings : StreamXadd(given, t)

StreamSpec == StreamInit /\ [][StreamNext]_vars

\* C20: whatever XADDs are sent, the ids stored under a stream key increase
\* strictly in append order and 0-0 is never among them; an XADD whose id is
\* 0-0, or equal to or below the top id, gets an error and leaves the stream
\* as it was; an XADD that changes the stream appends the one id it replies.
C20_StreamIdsStrictlyIncrease ==
  [][LET old == keyspace["s"].stream
         new == keyspace'["s"].stream
         top == PreviousId(old) IN
     /\ \A i, j \in 1..Len(new) : i < j => IdLess(new[i], new[j])
     /\ \A i \in 1..Len(new) : Id(new[i].ms, new[i].seq) # ZeroId
     /\ \A g \in IdSpace :
          (nsent' = nsent + 1 /\ cmd' = CXadd("s", IdStr(g))
           /\ (g = ZeroId \/ g = top \/ IdLess(g, top))) =>
            /\ new = old
            /\ Len(out') = Len(out) + 1
            /\ out'[Len(out')].t = "Error"
     /\ new # old =>
          /\ Len(new) = Len(old) + 1
          /\ SubSeq(new, 1, Len(old)) = old
          /\ out' = Append(out, RBulk(IdStr(PreviousId(new))))
    ]_vars

\* The stream holds 1-1 and then the generated 1-2, and an XADD with the
\* explicit id 1-1, below the top, has just been answered with an error.
C20_RejectedBelowTop ==
  /\ Len(keyspace["s"].stream) = 2
  /\ PreviousId(keyspace["s"].stream) = Id(1, 2)
  /\ keyspace["s"].stream[1].seq = 1
  /\ cmd = CXadd("s", "1-1")
  /\ Len(out) = 3
  /\ out[2] = RBulk("1-2")
  /\ out[3].t = "Error"

\* C21: an XADD with id * is always accepted and the id it replies is above
\* every id the stream held, also when the stream's top id has an ms part
\* beyond the clock.
C21_StarIsAcceptedAboveTop ==
  [][LET old == keyspace["s"].stream
         new == keyspace'["s"].stream IN
     (nsent' = nsent + 1 /\ cmd' = CXadd("s", "*")) =>
       /\ Len(new) = Len(old) + 1
       /\ old # <<>> => IdLess(PreviousId(old), PreviousId(new))
       /\ out' = Append(out, RBulk(IdStr(PreviousId(new))))
    ]_vars

\* -------------------------------------------------------------------- ZSpec
\* One connection that sends ZADD, ZREM and ZRANGE on one key (out, conn,
\* cmd and nsent are the session's).

MaxZCmds == 4

ZKey == "z"

\* ZADD k score member, ZREM k member, ZRANGE k start stop (start in px,
\* stop in n).
CZadd(k, s, m) == Cmd("ZADD", k, m, 0, "", s)
CZrem(k, m) == Cmd("ZREM", k, m, 0, "", 0)
CZrange(k, i, j) == Cmd("ZRANGE", k, "", i, "", j)

\* The start and stop arguments sent.
ZIndexes == {-1, 0, 1}

notZ == <<keyspace, log, registry, now, mode, queued, channels, blockVars,
          replVars, fanVars, pubVars, pipeVars, codecVars,
   rdbVars,
   mailVars,
   txnVars,
   hsVars>>

ZInit ==
  /\ keyspace = [k \in {"c"} |-> Missing]
  /\ log = <<>>
  /\ registry = [a \in Conns |-> NoReplica]
  /\ now = 1
  /\ mode = "Normal"
  /\ queued = <<>>
  /\ channels = <<>>
  /\ out = <<>>
  /\ conn = "open"
  /\ cmd = CNone
  /\ nsent = 0
  /\ BlockIdle
  /\ ReplIdle
  /\ FanIdle
  /\ PubIdle
  /\ PipeIdle
  /\ ZsetIdle
  /\ CodecIdle
  /\ RdbIdle
  /\ MailIdle
  /\ TxnIdle
  /\ HsIdle

\* The session loop takes a sorted-set command off the socket.
ZRecv(c) ==
  /\ conn = "open"
  /\ nsent < MaxZCmds
  /\ nsent' = nsent + 1
  /\ cmd' = c

\* process_command, Zadd arm
ZaddCommand(s, m) ==
  LET r == Store_zadd(zset, s, m) IN
  /\ ZRecv(CZadd(ZKey, s, m))
  /\ zset' = r.z
  /\ out' = Append(out, RInt(r.ret))
  /\ UNCHANGED conn
  /\ UNCHANGED notZ

\* process_command, ZRem arm
ZremCommand(m) ==
  LET r == Store_zrem(zset, m) IN
  /\ ZRecv(CZrem(ZKey, m))
  /\ zset' = r.z
  /\ out' = Append(out, RInt(r.ret))
  /\ UNCHANGED conn
  /\ UNCHANGED notZ

\* process_command, Zrange arm: the members as bulk strings; a panic in
\* Store::zrange ends the connection task.
ZrangeCommand(i, j) ==
  LET r == Store_zrange(zset, i, j) IN
  /\ ZRecv(CZrange(ZKey, i, j))
  /\ out' = IF r.panic THEN out
            ELSE Append(out, RArr([x \in 1..Len(r.vals) |-> RBulk(r.vals[x])]))
  /\ conn' = IF r.panic THEN "closed" ELSE conn
  /\ UNCHANGED zset
  /\ UNCHANGED notZ

ZNext ==
  \/ \E s \in Scores, m \in Members : ZaddCommand(s, m)
  \/ \E m \in Members : ZremCommand(m)
  \/ \E i, j \in ZIndexes : ZrangeCommand(i, j)

ZSpec == ZInit /\ [][ZNext]_vars

\* C22: the buckets and the inverse map agree: a member has score s in the
\* inverse map exactly when it is in the bucket of s, and then it is in no
\* other bucket.
C22_BucketsAndInverseMapAgree ==
  \A m \in Members, s \in Scores :
    /\ zset.rev[m] = s <=> m \in zset.data[s]
    /\ zset.rev[m] = s => \A o \in Scores \ {s} : m \notin zset.data[o]

\* The members of the set, as ZRANGE and ZCARD see them.
ZMembers(z) == {m \in Members : \E s \in Scores : m \in z.data[s]}

\* C23: ZADD replies 1 exactly when the member was not in the set before the
\* call, and a ZADD that repeats the one before it replies 0 and leaves the
\* set as it was.
C23_ZaddRepliesOneIffNew ==
  [][\A s \in Scores, m \in Members :
       (nsent' = nsent + 1 /\ cmd' = CZadd(ZKey, s, m)) =>
         /\ out' = Append(out, RInt(IF m \in ZMembers(zset) THEN 0 ELSE 1))
         /\ cmd = CZadd(ZKey, s, m) =>
              (zset' = zset /\ out'[Len(out')] = RInt(0))]_vars

\* The set in (score, member) order.
RECURSIVE ByScoreThenMember(_, _)
ByScoreThenMember(z, s) ==
  IF s > MaxScore THEN <<>>
  ELSE SortedBucket(z.data[s]) \o ByScoreThenMember(z, s + 1)

\* Ranks start..stop of seq, 0-based and inclusive, a negative index
\* counting from the end, both ends clamped to the sequence.
RankSlice(seq, start, stop) ==
  LET n == Len(seq)
      b0 == IF start < 0 THEN n + start ELSE start
      e0 == IF stop < 0 THEN n + stop ELSE stop
      b == IF b0 < 0 THEN 0 ELSE b0
      e == IF e0 >= n THEN n - 1 ELSE e0
  IN IF b > e THEN <<>> ELSE SubSeq(seq, b + 1, e + 1)

\* C24: ZRANGE never fails and replies the members at the ranks asked for,
\* in (score, member) order; ZRANGE 0 -1 replies all ZCARD members.
C24_ZrangeRepliesTheRanks ==
  [][\A i, j \in ZIndexes :
       (nsent' = nsent + 1 /\ cmd' = CZrange(ZKey, i, j)) =>
         LET want == RankSlice(ByScoreThenMember(zset, 1), i, j) IN
         /\ conn' = "open"
         /\ out' = Append(out, RArr([x \in 1..Len(want) |-> RBulk(want[x])]))
         /\ (i = 0 /\ j = -1) => Len(want) = Store_zcard(zset)]_vars

\* ------------------------------------------------------------- ExpirySpec
\* One client sends SET (with and without PX), GET, TYPE and INCR on one key
\* while the clock (Instant::now()) advances.

MaxExpCmds == 4
MaxClock == 4
ExpKey == "k"
ExpPx == {NoPx, 1, 2}
ExpValues == {"5", "v"}

\* SET k v [PX ms], GET k, TYPE k, INCR k
ExpCmds == {CSet(ExpKey, v, px) : v \in ExpValues, px \in ExpPx}
             \cup {CGet(ExpKey), CType(ExpKey), CIncr(ExpKey)}

notExpiry == <<registry, mode, queued, channels, conn, blockVars, replVars,
               fanVars, pubVars, pipeVars, zsetVars,
   codecVars,
   rdbVars,
   mailVars,
   txnVars,
   hsVars>>

ExpiryInit ==
  /\ keyspace = [k \in {ExpKey} |-> Missing]
  /\ log = <<>>
  /\ registry = [a \in Conns |-> NoReplica]
  /\ now = 1
  /\ mode = "Normal"
  /\ queued = <<>>
  /\ channels = <<>>
  /\ out = <<>>
  /\ conn = "open"
  /\ cmd = CNone
  /\ nsent = 0
  /\ BlockIdle
  /\ ReplIdle
  /\ FanIdle
  /\ PubIdle
  /\ PipeIdle
  /\ ZsetIdle
  /\ CodecIdle
  /\ RdbIdle
  /\ MailIdle
  /\ TxnIdle
  /\ HsIdle

\* handle_normal_mode on command c with the clock at now: process_command
\* runs set_command, get_command, type_command or incr_command and the reply
\* is written.
ExpCommand(c) ==
  LET r == ProcessCommand(c, keyspace, log, registry, now) IN
  /\ nsent < MaxExpCmds
  /\ nsent' = nsent + 1
  /\ cmd' = c
  /\ keyspace' = r.ks
  /\ log' = r.log
  /\ out' = IF r.resp = NoReply THEN out ELSE Append(out, r.resp)
  /\ UNCHANGED now
  /\ UNCHANGED notExpiry

\* A millisecond passes between two commands.
ClockTick ==
  /\ now < MaxClock
  /\ now' = now + 1
  /\ UNCHANGED <<keyspace, log, out, cmd, nsent>>
  /\ UNCHANGED notExpiry

ExpiryNext ==
  \/ \E c \in ExpCmds : ExpCommand(c)
  \/ ClockTick

ExpirySpec == ExpiryInit /\ [][ExpiryNext]_vars

\* The command c has just been served.
Served(c) == nsent' = nsent + 1 /\ cmd' = c

\* The key holds a string whose expiry instant the clock has reached.
Expired == /\ keyspace[ExpKey].type = "Text"
           /\ keyspace[ExpKey].expires # NoExpiry
           /\ now >= keyspace[ExpKey].expires

\* C25: SET k v PX ms at instant s stores v with expiry e = s + ms and SET
\* without PX stores v with no expiry; a GET at t >= e replies the null bulk
\* and a TYPE replies none; a GET before e (or with no expiry) replies the
\* stored value; and only SET and INCR change what the key holds.
C25_ExpiryIsHonouredOnRead ==
  [][/\ \A v \in ExpValues, px \in ExpPx :
          Served(CSet(ExpKey, v, px)) =>
            /\ keyspace'[ExpKey] =
                 TextEntry(v, IF px = NoPx THEN NoExpiry ELSE now + px)
            /\ out' = Append(out, RSimple("OK"))
     /\ Served(CGet(ExpKey)) =>
          out' = Append(out,
                   IF keyspace[ExpKey].type = "none" \/ Expired THEN RNil
                   ELSE RBulk(keyspace[ExpKey].text))
     /\ Served(CType(ExpKey)) =>
          out' = Append(out,
                   IF keyspace[ExpKey].type = "none" \/ Expired
                     THEN RSimple("none")
                   ELSE RSimple("string"))
     /\ (cmd'.op \notin {"SET", "INCR"} \/ nsent' = nsent) =>
          keyspace' = keyspace]_vars

\* C25 witness: a GET served at the very instant the key's expiry falls on
\* has replied the null bulk.
C25_GetAtTheExpiryInstant ==
  /\ cmd = CGet(ExpKey)
  /\ keyspace[ExpKey].type = "Text"
  /\ keyspace[ExpKey].expires = now
  /\ Len(out) >= 2
  /\ out[Len(out)] = RNil
  /\ out[Len(out) - 1] = RSimple("OK")

\* C26: INCR on a key whose expiry has passed treats the key as absent: it
\* stores 1 without an expiry and replies 1, so a GET afterwards replies "1".
C26_IncrOnExpiredKeyStartsAtOne ==
  [][(Served(CIncr(ExpKey)) /\ Expired) =>
       /\ out' = Append(out, RInt(1))
       /\ keyspace'[ExpKey] = TextEntry("1", NoExpiry)]_vars

\* -------------------------------------------------------------- CodecSpec
\* The read side of one Framed<TcpStream, RespCodec>: the peer's encoded frames
\* arrive in chunks of any size; after every read the codec's decode runs on
\* the buffer until it returns Ok(None).

\* Socket reads the model follows.
MaxChunks == 3
\* Most bytes one socket read returns: the longest stream the peer sends.
MaxChunkLen == 24

\* The values a peer sends first: every variant, the absent and the empty bulk
\* string, bulk data holding CR LF, an empty and a nested array.
CodecValues ==
  {SimpleString(<<"O", "K">>), SimpleString(<<>>), ErrorString(<<"E">>),
   Integer(0), Integer(-1), Integer(12),
   BulkNone, Bulk(<<>>), Bulk(<<"a">>), Bulk(<<CR, LF, "a">>),
   Array(<<>>), Array(<<Bulk(<<"a">>), Integer(1)>>),
   Array(<<Array(<<Bulk(<<"a">>)>>), BulkNone>>)}

\* What the peer sends: one value, or one value and an integer after it.
CodecSends == {<<v>> : v \in CodecValues} \cup {<<v, Integer(7)>> : v \in CodecValues}

\* The frames of the values in order, as the peer's Encoder writes them.
EncodeAll(values) == WriteEach(values)

notCodec == <<keyspace, log, registry, now, mode, queued, channels, out, conn,
              cmd, nsent, blockVars, replVars, fanVars, pubVars, pipeVars,
              zsetVars, rdbVars,
   mailVars,
   txnVars,
   hsVars>>

CodecInit ==
  /\ keyspace = [k \in {"k"} |-> Missing]
  /\ log = <<>>
  /\ registry = [a \in Conns |-> NoReplica]
  /\ now = 1
  /\ mode = "Normal"
  /\ queued = <<>>
  /\ channels = <<>>
  /\ out = <<>>
  /\ conn = "open"
  /\ cmd = CNone
  /\ nsent = 0
  /\ BlockIdle
  /\ ReplIdle
  /\ FanIdle
  /\ PubIdle
  /\ PipeIdle
  /\ ZsetIdle
  /\ RdbIdle
  /\ MailIdle
  /\ TxnIdle
  /\ HsIdle
  /\ \E sent \in CodecSends :
       codec = [sent |-> sent, wire |-> EncodeAll(sent), buf |-> <<>>,
                readable |-> FALSE, got |-> <<>>, st |-> "open", reads |-> 0]

\* The framed reader has nothing decodable and reads the socket: the next n
\* bytes of the stream are appended to the buffer.
ReadChunk(n) ==
  /\ codec.st = "open"
  /\ ~codec.readable
  /\ codec.reads < MaxChunks
  /\ n <= Len(codec.wire)
  /\ codec' = [codec EXCEPT !.buf = codec.buf \o SplitHead(codec.wire, n),
                            !.wire = SplitRest(codec.wire, n),
                            !.readable = TRUE,
                            !.reads = codec.reads + 1]
  /\ UNCHANGED notCodec

\* One Decoder::decode call on the buffer: an item is yielded, or the reader
\* goes back to the socket, or the stream ends with the error.
DecodeStep ==
  /\ codec.st = "open"
  /\ codec.readable
  /\ LET r == Decode(codec.buf) IN
     codec' = [codec EXCEPT
                 !.buf = r.rest,
                 !.got = IF r.st = "some" THEN Append(codec.got, r.val)
                         ELSE codec.got,
                 !.readable = (r.st = "some"),
                 !.st = IF r.st = "err" THEN "err" ELSE "open"]
  /\ UNCHANGED notCodec

CodecNext ==
  \/ \E n \in 1..MaxChunkLen : ReadChunk(n)
  \/ DecodeStep

CodecSpec == CodecInit /\ [][CodecNext]_vars

\* The values sent that the reader has not yielded yet.
NotYetYielded == SubSeq(codec.sent, Len(codec.got) + 1, Len(codec.sent))

\* C27: whatever the chunks, decoding never fails, the items yielded are the
\* values sent, in order, and the bytes still in the buffer and on the wire
\* are exactly the frames of the values not yet yielded: a decode call on an
\* incomplete frame consumes nothing.
C27_PartialReadsLoseNothing ==
  codec.st # "idle" =>
    /\ codec.st = "open"
    /\ Len(codec.got) <= Len(codec.sent)
    /\ codec.got = SubSeq(codec.sent, 1, Len(codec.got))
    /\ codec.buf \o codec.wire = EncodeAll(NotYetYielded)

\* C28: when the encoded values arrive whole, in one read, decoding yields
\* each value sent, equal to the original (the absent bulk string as absent,
\* the empty one as empty), and consumes exactly its encoded bytes: what is
\* left in the buffer is the encoding of the values not yet yielded.
C28_DecodeInvertsEncode ==
  (codec.st # "idle" /\ codec.reads = 1 /\ codec.wire = <<>>) =>
    /\ codec.st = "open"
    /\ Len(codec.got) <= Len(codec.sent)
    /\ codec.got = SubSeq(codec.sent, 1, Len(codec.got))
    /\ codec.buf = EncodeAll(NotYetYielded)
    /\ ~codec.readable => codec.got = codec.sent

\* C28 witness: a nested array holding an absent bulk string, and the integer
\* sent after it, arrived in one read and were both yielded.
C28_NestedArrayRoundTrip ==
  /\ codec.sent = <<Array(<<Array(<<Bulk(<<"a">>)>>), BulkNone>>), Integer(7)>>
  /\ codec.reads = 1
  /\ codec.wire = <<>>
  /\ ~codec.readable
  /\ codec.got = codec.sent
  /\ codec.buf = <<>>

\* C29: a frame whose command cannot be parsed (an unknown name, a missing or
\* unparsable argument) is answered with an error frame and the connection
\* stays open in the mode it was in, ready for the next command.
C29_UnparsableIsAnsweredWithAnError ==
  [][(nsent' = nsent + 1 /\ conn = "open" /\ ~Parses(cmd')) =>
       /\ conn' = "open"
       /\ mode' = mode
       /\ Len(out') = Len(out) + 1
       /\ out'[Len(out')].t = "Error"]_vars


\* --------------------------------------------------------------- TypeSpec
\* One client sends string, list and stream commands on one key, so a command
\* can meet a value of another type.

MaxTypeCmds == 4
TypeKey == "k"

\* SET k 5, GET k, INCR k, RPUSH k a, XADD k 1-1 f v
TypeCmds == {CSet(TypeKey, "5", NoPx), CGet(TypeKey), CIncr(TypeKey),
             CRpush(TypeKey, "a"), CXadd(TypeKey, "1-1")}

notType == <<registry, now, mode, queued, channels, blockVars, replVars,
             fanVars, pubVars, pipeVars, zsetVars, codecVars,
   rdbVars,
   mailVars,
   txnVars,
   hsVars>>

TypeInit ==
  /\ keyspace = [k \in {TypeKey} |-> Missing]
  /\ log = <<>>
  /\ registry = [a \in Conns |-> NoReplica]
  /\ now = 1
  /\ mode = "Normal"
  /\ queued = <<>>
  /\ channels = <<>>
  /\ out = <<>>
  /\ conn = "open"
  /\ cmd = CNone
  /\ nsent = 0
  /\ BlockIdle
  /\ ReplIdle
  /\ FanIdle
  /\ PubIdle
  /\ PipeIdle
  /\ ZsetIdle
  /\ CodecIdle
  /\ RdbIdle
  /\ MailIdle
  /\ TxnIdle
  /\ HsIdle

\* handle_normal_mode on command c: process_command runs the handler; its
\* reply is written, or its Err is returned with `?` and ends the connection.
TypedCommand(c) ==
  LET r == ProcessCommand(c, keyspace, log, registry, now) IN
  /\ conn = "open"
  /\ nsent < MaxTypeCmds
  /\ nsent' = nsent + 1
  /\ cmd' = c
  /\ keyspace' = r.ks
  /\ log' = r.log
  /\ conn' = IF r.err THEN "closed" ELSE conn
  /\ out' = IF r.err \/ r.resp = NoReply THEN out ELSE Append(out, r.resp)
  /\ UNCHANGED notType

TypeNext == \E c \in TypeCmds : TypedCommand(c)

TypeSpec == TypeInit /\ [][TypeNext]_vars

\* The type of value a command works on.
KindOf(op) ==
  CASE op \in {"GET", "INCR"} -> "Text"
    [] op = "RPUSH" -> "List"
    [] op = "XADD" -> "Stream"
    [] OTHER -> "none"

\* C30: a GET, INCR, RPUSH or XADD served on a key that holds a value of
\* another type is answered with an error frame, leaves the keyspace as it
\* was and leaves the connection open.
C30_WrongTypeIsAnErrorReply ==
  [][\A c \in TypeCmds :
       (/\ Served(c)
        /\ c.op # "SET"
        /\ keyspace[c.key].type \notin {"none", KindOf(c.op)}) =>
         /\ Len(out') = Len(out) + 1
         /\ out'[Len(out')].t = "Error"
         /\ keyspace' = keyspace
         /\ conn' = conn]_vars


\* C31: an XADD that is rejected (its id is 0-0 or not above the top) replies
\* an error frame and leaves the keyspace and the replication log, hence the
\* replication offset, exactly as they were.
C31_RejectedXaddChangesNothing ==
  [][(nsent' = nsent + 1 /\ cmd'.op = "XADD" /\ IdParses(cmd'.id)
      /\ Len(out') = Len(out) + 1 /\ out'[Len(out')].t = "Error") =>
       /\ keyspace' = keyspace
       /\ log' = log]_vars


\* C32: an XREAD without BLOCK served in Normal mode always gets one reply:
\* the null bulk string when the stream holds no entry above the bound, and
\* otherwise the stream with exactly its entries above the bound.
C32_XreadWithoutBlockAlwaysReplies ==
  [][(nsent' = nsent + 1 /\ cmd'.op = "XREAD" /\ cmd'.n < 0
      /\ mode = "Normal" /\ conn = "open" /\ IdParses(cmd'.id)
      /\ keyspace[cmd'.key].type \in {"none", "Stream"}) =>
       LET above == GetFrom(keyspace[cmd'.key].stream, ParseId(cmd'.id)) IN
       out' = Append(out,
                IF above = <<>> THEN RNil
                ELSE RArr(<<RArr(<<RBulk(cmd'.key),
                                  RArr(EncodeStream(above))>>)>>))]_vars


\* --------------------------------------------------------------- ListSpec
\* One client pushes to one list and pops several elements at a time.

MaxListCmds == 4
\* Largest count an LPOP asks for.
MaxPop == 3
ListKey == "l"

\* RPUSH l a, RPUSH l b, LPOP l n
ListCmds == {CRpush(ListKey, "a"), CRpush(ListKey, "b")}
              \cup {CLpop(ListKey, n) : n \in 1..MaxPop}

notList == <<registry, now, mode, queued, channels, blockVars, replVars,
             fanVars, pubVars, pipeVars, zsetVars, codecVars,
   rdbVars,
   mailVars,
   txnVars,
   hsVars>>

ListInit ==
  /\ keyspace = [k \in {ListKey} |-> Missing]
  /\ log = <<>>
  /\ registry = [a \in Conns |-> NoReplica]
  /\ now = 1
  /\ mode = "Normal"
  /\ queued = <<>>
  /\ channels = <<>>
  /\ out = <<>>
  /\ conn = "open"
  /\ cmd = CNone
  /\ nsent = 0
  /\ BlockIdle
  /\ ReplIdle
  /\ FanIdle
  /\ PubIdle
  /\ PipeIdle
  /\ ZsetIdle
  /\ CodecIdle
  /\ RdbIdle
  /\ MailIdle
  /\ TxnIdle
  /\ HsIdle

\* handle_normal_mode on RPUSH or LPOP: process_command runs the handler; its
\* reply is written, or its Err or panic ends the connection task.
ListCommand(c) ==
  LET r == ProcessCommand(c, keyspace, log, registry, now) IN
  /\ conn = "open"
  /\ nsent < MaxListCmds
  /\ nsent' = nsent + 1
  /\ cmd' = c
  /\ keyspace' = r.ks
  /\ log' = r.log
  /\ conn' = IF r.err THEN "closed" ELSE conn
  /\ out' = IF r.err \/ r.resp = NoReply THEN out ELSE Append(out, r.resp)
  /\ UNCHANGED notList

ListNext == \E c \in ListCmds : ListCommand(c)

ListSpec == ListInit /\ [][ListNext]_vars

\* The smaller of two numbers.
Min(a, b) == IF a <= b THEN a ELSE b

\* C33: LPOP l n with n >= 1 on a list of len elements removes and replies
\* the first min(n, len) elements in order, leaves the others in order and
\* keeps the connection; on an absent key it replies the null bulk string.
C33_LpopPopsUpToN ==
  [][(nsent' = nsent + 1 /\ cmd'.op = "LPOP") =>
       LET l == keyspace[ListKey].list
           k == Min(cmd'.n, Len(l)) IN
       IF keyspace[ListKey].type = "none" \/ l = <<>>
         THEN out' = Append(out, RNil) /\ keyspace' = keyspace
       ELSE /\ conn' = "open"
            /\ keyspace'[ListKey].list = SubSeq(l, k + 1, Len(l))
            /\ out' = Append(out, BulkArray(SubSeq(l, 1, k)))]_vars


\* --------------------------------------------------------------- LoadSpec
\* The server starts, loads its snapshot file and then serves GETs while the
\* wall clock advances. One ms clock stands for SystemTime and Instant.

\* Records in the snapshot file.
MaxRecords == 3
\* Last wall-clock reading, in ms.
MaxWall == 4
\* GETs served after the load.
MaxLoadCmds == 2

LoadKeys == {"k", "j"}

\* The records a snapshot file is made of.
SnapRecords ==
  {ExpireMs(ms) : ms \in 1..(MaxWall - 1)} \cup {ExpireSecs(0), ExpireSecs(1)}
    \cup {KeyValue(k, "v") : k \in LoadKeys}

Snapshots == UNION {[1..n -> SnapRecords] : n \in 1..MaxRecords}

notLoad == <<log, registry, mode, queued, channels, blockVars, replVars,
             fanVars, pubVars, pipeVars, zsetVars, codecVars, mailVars,
   txnVars,
   hsVars>>

LoadInit ==
  /\ keyspace = [k \in LoadKeys |-> Missing]
  /\ log = <<>>
  /\ registry = [a \in Conns |-> NoReplica]
  /\ now = 1
  /\ mode = "Normal"
  /\ queued = <<>>
  /\ channels = <<>>
  /\ out = <<>>
  /\ conn = "boot"
  /\ cmd = CNone
  /\ nsent = 0
  /\ BlockIdle
  /\ ReplIdle
  /\ FanIdle
  /\ PubIdle
  /\ PipeIdle
  /\ ZsetIdle
  /\ CodecIdle
  /\ RdbIdle
  /\ MailIdle
  /\ TxnIdle
  /\ HsIdle

\* main: rdb.load() and store.set for every triple, before the accept loop.
LoadSnapshot(records) ==
  /\ conn = "boot"
  /\ rdb' = [records |-> records, at |-> now]
  /\ keyspace' = SetEach(keyspace, Load(records, NoPending, now), now)
  /\ conn' = "open"
  /\ UNCHANGED <<now, out, cmd, nsent>>
  /\ UNCHANGED notLoad

\* A client's GET on key k after the load.
LoadGet(k) ==
  /\ conn = "open"
  /\ nsent < MaxLoadCmds
  /\ nsent' = nsent + 1
  /\ cmd' = CGet(k)
  /\ out' = Append(out, ProcessCommand(CGet(k), keyspace, log, registry, now).resp)
  /\ UNCHANGED <<keyspace, now, conn, rdb>>
  /\ UNCHANGED notLoad

\* A millisecond of wall time passes.
WallTick ==
  /\ now < MaxWall
  /\ now' = now + 1
  /\ UNCHANGED <<keyspace, out, cmd, nsent, conn, rdb>>
  /\ UNCHANGED notLoad

LoadNext ==
  \/ \E records \in Snapshots : LoadSnapshot(records)
  \/ \E k \in LoadKeys : LoadGet(k)
  \/ WallTick

LoadSpec == LoadInit /\ [][LoadNext]_vars

\* What the file means when read at wall time at: per key, whether a record
\* was kept, its value, and the wall time e it expires at (NoPending: never).
\* An expire record applies to the next key/value record only; a record whose
\* expiry is already past is dropped.
RECURSIVE Meaning(_, _, _, _)
Meaning(records, pending, at, m) ==
  IF records = <<>> THEN m
  ELSE LET r == Head(records) IN
       CASE r.op = "FD" -> Meaning(Tail(records), r.at * 1000, at, m)
         [] r.op = "FC" -> Meaning(Tail(records), r.at, at, m)
         [] OTHER ->
              Meaning(Tail(records), NoPending, at,
                      IF pending # NoPending /\ pending < at THEN m
                      ELSE [m EXCEPT ![r.key] =
                              [kept |-> TRUE, val |-> r.val, e |-> pending]])

NothingKept == [k \in LoadKeys |-> [kept |-> FALSE, val |-> "", e |-> NoPending]]

\* C34: after the load, a GET at wall time t replies the value of a record
\* that was kept and has no expiry or an expiry e > t, and the null bulk
\* string for a key whose record was dropped or whose expiry e <= t.
C34_LoadedExpiryIsWallTime ==
  [][(nsent' = nsent + 1 /\ cmd'.op = "GET" /\ conn = "open") =>
       LET x == Meaning(rdb.records, NoPending, rdb.at, NothingKept)[cmd'.key] IN
       out' = Append(out,
                IF ~x.kept \/ (x.e # NoPending /\ now >= x.e) THEN RNil
                ELSE RBulk(x.val))]_vars


\* C35: for as long as the replica is connected, its heartbeat task can emit
\* the next REPLCONF ACK, also after the replica has started to process the
\* frames the primary sends: the replay never starves the heartbeat.
C35_HeartbeatIsNeverStarved ==
  (rconn = "connected" /\ Len(ackq) < MaxAcks) => ENABLED Heartbeat


\* --------------------------------------------------------------- MailSpec
\* A publisher, one subscriber whose peer may stop reading, and another client
\* that reads the keyspace. mail.lock is the keyspace RwLock ("free" or held
\* by "pub"), mail.inbox the number of messages in the subscriber's mailbox,
\* mail.got the number written to its socket.

\* Messages the model follows onto the subscriber's socket.
MaxForwards == 2

notMail == <<keyspace, log, registry, now, mode, queued, channels, out, conn,
             cmd, nsent, blockVars, replVars, fanVars, pubVars, pipeVars,
             zsetVars, codecVars, rdbVars, txnVars,
   hsVars>>

MailInit ==
  /\ keyspace = [k \in {"k"} |-> Missing]
  /\ log = <<>>
  /\ registry = [a \in Conns |-> NoReplica]
  /\ now = 1
  /\ mode = "Normal"
  /\ queued = <<>>
  /\ channels = <<>>
  /\ out = <<>>
  /\ conn = "open"
  /\ cmd = CNone
  /\ nsent = 0
  /\ BlockIdle
  /\ ReplIdle
  /\ FanIdle
  /\ PubIdle
  /\ PipeIdle
  /\ ZsetIdle
  /\ CodecIdle
  /\ RdbIdle
  /\ mail = [NoMail EXCEPT !.lock = "free"]
  /\ TxnIdle
  /\ HsIdle

\* subscribe_to_channel: Store::subscribe puts the client's Sender in the
\* channel's map under the write lock, which it releases on return.
MailSubscribe ==
  /\ ~mail.subscribed
  /\ mail.lock = "free"
  /\ mail' = [mail EXCEPT !.subscribed = TRUE]
  /\ UNCHANGED notMail

\* send_to_channel: `let mut keyspace = self.keyspace.write().await`
PubLock ==
  /\ mail.pub = "idle"
  /\ mail.lock = "free"
  /\ mail' = [mail EXCEPT !.lock = "pub", !.pub = "locked"]
  /\ UNCHANGED notMail

\* send_to_channel: `tx.send(..).await?` for the subscriber, which completes
\* only when the mailbox has room; the guard is dropped on return.
PubSend ==
  /\ mail.pub = "locked"
  /\ mail.subscribed => mail.inbox < MailboxCap
  /\ mail' = [mail EXCEPT !.lock = "free", !.pub = "idle",
                          !.inbox = IF mail.subscribed THEN @ + 1 ELSE @]
  /\ UNCHANGED notMail

\* run_subscribed_loop, rx branch: one message is taken from the mailbox and
\* written to the socket, which the peer is reading.
MailForward ==
  /\ mail.subscribed
  /\ mail.inbox > 0
  /\ ~mail.stalled
  /\ mail.got < MaxForwards
  /\ mail' = [mail EXCEPT !.inbox = @ - 1, !.got = @ + 1]
  /\ UNCHANGED notMail

\* The subscriber's peer stops or resumes reading its socket: while it does
\* not read, `client.framed.send(msg).await` does not complete.
PeerStalls ==
  /\ mail.subscribed
  /\ mail' = [mail EXCEPT !.stalled = ~@]
  /\ UNCHANGED notMail

\* Another client's GET reaches Store::_get: `self.keyspace.read().await`
OtherIssue ==
  /\ mail.other = "idle"
  /\ mail' = [mail EXCEPT !.other = "waiting"]
  /\ UNCHANGED notMail

\* The read lock is granted, the value is read and the guard dropped.
OtherServe ==
  /\ mail.other = "waiting"
  /\ mail.lock = "free"
  /\ mail' = [mail EXCEPT !.other = "idle"]
  /\ UNCHANGED notMail

MailNext ==
  \/ MailSubscribe
  \/ PubLock
  \/ PubSend
  \/ MailForward
  \/ PeerStalls
  \/ OtherIssue
  \/ OtherServe

MailSpec == MailInit /\ [][MailNext]_vars

\* C36: the holder of the keyspace lock is never suspended on a send into a
\* full mailbox, so a client waiting for the lock is never kept from it by a
\* PUBLISH to a subscriber that does not read.
C36_LockNotHeldAcrossMailboxSend ==
  mail.lock = "pub" => (mail.subscribed => mail.inbox < MailboxCap)


\* --------------------------------------------------- WAIT and the offsets

\* The replica has processed a frame carrying the command of a logged frame:
\* a SET in the form the drain task writes, anything else as it was logged.
DeliveredAndApplied(f) ==
  \E j \in 1..rpos :
    IF f[1] = "SET" THEN wire[j] = <<"SET", f[2], f[3]>> ELSE wire[j] = f

\* C37: whenever the offset the primary holds for a replica has reached the
\* primary's own replication offset O, every command whose bytes make up O
\* has been delivered to that replica and applied by it; the bytes the
\* replica logs for REPLCONF GETACK frames or for re-encoded SET frames never
\* let its offset reach O early.
C37_AckedOffsetMeansWritesApplied ==
  (registry[R1].present /\ log # <<>> /\ registry[R1].ack >= LogLen(log))
    => \A i \in 1..Len(log) : DeliveredAndApplied(log[i])


\* ----------------------------------------------------------------- TxnSpec

\* Commands one transaction queues, and commands the other connection sends.
MaxBatch == 3
MaxPeerCmds == 2

TxnKey == "c"

\* What a transaction queues.
BatchCmds == { CIncr(TxnKey) }

\* What the other connection sends while the transaction runs.
PeerCmds == { CIncr(TxnKey), CSet(TxnKey, "5", NoPx) }

\* What TxnSpec leaves alone.
notTxn == <<now, mode, queued, channels, out, conn, cmd, nsent, blockVars,
            replVars, fanVars, pubVars, pipeVars, zsetVars, codecVars,
            rdbVars, mailVars, hsVars>>

TxnInit ==
  /\ keyspace = [k \in {TxnKey} |-> Missing]
  /\ log = <<>>
  /\ registry = [a \in Conns |-> NoReplica]
  /\ now = 1
  /\ mode = "Normal"
  /\ queued = <<>>
  /\ channels = <<>>
  /\ out = <<>>
  /\ conn = "open"
  /\ cmd = CNone
  /\ nsent = 0
  /\ BlockIdle
  /\ ReplIdle
  /\ FanIdle
  /\ PubIdle
  /\ PipeIdle
  /\ ZsetIdle
  /\ CodecIdle
  /\ RdbIdle
  /\ MailIdle
  /\ txn = [NoTxn EXCEPT !.pc = "normal"]
  /\ HsIdle

\* handle_normal_mode, Multi arm
TxnMulti ==
  /\ txn.pc = "normal"
  /\ txn.out = <<>>
  /\ txn' = [txn EXCEPT !.pc = "multi", !.out = Append(@, RSimple("OK"))]
  /\ UNCHANGED <<keyspace, log, registry, notTxn>>

\* handle_multi_mode, every other command: session.queued.push, QUEUED
TxnQueue(c) ==
  /\ txn.pc = "multi"
  /\ Len(txn.queue) < MaxBatch
  /\ txn' = [txn EXCEPT !.queue = Append(@, c),
                        !.out = Append(@, RBulk("QUEUED"))]
  /\ UNCHANGED <<keyspace, log, registry, notTxn>>

\* handle_multi_mode, Exec arm up to the loop: the mode is Normal again; an
\* empty queue is answered with an empty array at once.
TxnExec ==
  /\ txn.pc = "multi"
  /\ txn' = IF txn.queue = <<>>
              THEN [txn EXCEPT !.pc = "normal", !.out = Append(@, RArr(<<>>))]
            ELSE [txn EXCEPT !.pc = "exec", !.pos = 0, !.responses = <<>>]
  /\ UNCHANGED <<keyspace, log, registry, notTxn>>

\* handle_multi_mode, one turn of the loop: process_command(queued).await?,
\* which takes and releases the keyspace lock on its own.
TxnRunQueued ==
  /\ txn.pc = "exec"
  /\ txn.pos < Len(txn.queue)
  /\ LET r == ProcessCommand(txn.queue[txn.pos + 1], keyspace, log, registry,
                             now) IN
       /\ keyspace' = r.ks
       /\ log' = r.log
       /\ registry' = r.reg
       /\ txn' = IF r.err THEN [txn EXCEPT !.pc = "closed"]
                 ELSE [txn EXCEPT !.pos = @ + 1,
                                  !.responses = IF r.resp = NoReply THEN @
                                                ELSE Append(@, r.resp)]
  /\ UNCHANGED notTxn

\* handle_multi_mode, after the loop: the array of responses is sent and the
\* queue cleared.
TxnReply ==
  /\ txn.pc = "exec"
  /\ txn.pos = Len(txn.queue)
  /\ txn' = [txn EXCEPT !.pc = "normal", !.queue = <<>>, !.pos = 0,
                        !.responses = <<>>,
                        !.out = Append(@, RArr(txn.responses))]
  /\ UNCHANGED <<keyspace, log, registry, notTxn>>

\* handle_normal_mode on the other connection's task: process_command, then
\* the reply.
PeerCommand(c) ==
  /\ Len(txn.peer) < MaxPeerCmds
  /\ LET r == ProcessCommand(c, keyspace, log, registry, now) IN
       /\ ~r.err
       /\ keyspace' = r.ks
       /\ log' = r.log
       /\ registry' = r.reg
       /\ txn' = [txn EXCEPT !.peer = Append(@, r.resp)]
  /\ UNCHANGED notTxn

TxnNext ==
  \/ TxnMulti
  \/ \E c \in BatchCmds : TxnQueue(c)
  \/ TxnExec
  \/ TxnRunQueued
  \/ TxnReply
  \/ \E c \in PeerCmds : PeerCommand(c)

TxnSpec == TxnInit /\ [][TxnNext]_vars

\* ----------------------------------------------------- claims under TxnSpec

\* C38: the commands of one EXEC batch are applied as a unit: the integers an
\* EXEC of queued INCR c commands returns are consecutive, whatever another
\* connection does to c in the meantime.
C38_ExecBatchIsAUnit ==
  \A j \in 1..Len(txn.out) :
    txn.out[j].t = "Array" =>
      \A i \in 1..(Len(txn.out[j].a) - 1) :
        (txn.out[j].a[i].t = "Int" /\ txn.out[j].a[i + 1].t = "Int")
          => txn.out[j].a[i + 1].n = txn.out[j].a[i].n + 1


\* ------------------------------------------- list elements under BlockSpec

\* The BLPOP waiters of BlockSpec.
BlpopWaiters == {B0, BT}

\* The elements a BLPOP waiter was sent, from its [l, element] replies.
ReceivedBy(w) ==
  { wout[w][i].a[2].s : i \in { j \in 1..Len(wout[w]) : wout[w][j].t = "Array" } }

\* The elements l holds now.
Listed == { keyspace["l"].list[i] : i \in 1..Len(keyspace["l"].list) }

\* No BLPOP is in progress that could still return an element by itself: each
\* waiter has finished or is parked with no wake-up pending.
WaitersSettled ==
  /\ wpc[BT] = "done"
  /\ wpc[B0] = "done" \/ (wpc[B0] = "waiting" /\ ~wwoken[B0])

\* C39: list elements are neither lost nor duplicated: no element is sent to
\* two poppers or sent to one and still listed, the elements listed and
\* received are never more than were pushed nor fewer than the pushes less
\* the other consumer's pops, and when one element was pushed for two BLPOP
\* waiters and nobody else popped, exactly one waiter has received it once
\* the waiters have come to rest.
C39_ListElementsNeitherLostNorDuplicated ==
  /\ ReceivedBy(B0) \cap ReceivedBy(BT) = {}
  /\ (ReceivedBy(B0) \cup ReceivedBy(BT)) \cap Listed = {}
  /\ Cardinality(Listed) = Len(keyspace["l"].list)
  /\ Cardinality(ReceivedBy(B0) \cup ReceivedBy(BT) \cup Listed) <= npush
  /\ Cardinality(ReceivedBy(B0) \cup ReceivedBy(BT) \cup Listed) >= npush - npop
  /\ (npush = 1 /\ npop = 0 /\ WaitersSettled)
       => Cardinality({ w \in BlpopWaiters : ReceivedBy(w) # {} }) = 1


\* ----------------------------------------------------------- HandshakeSpec

\* Largest number of bytes one read of the socket returns.
MaxSegment == 32

\* The commands ServerInfo::handshake sends, in the order of its code.
HandshakeCmds == <<"PING", "REPLCONF listening-port", "REPLCONF capa psync2",
                   "PSYNC ? -1">>

\* What the primary writes back. The replication id is written "id" and the
\* snapshot is its first five bytes (the real one has 88).
PongBytes == Encode(SimpleString(<<"P", "O", "N", "G">>))
OkBytes == Encode(SimpleString(<<"O", "K">>))
FullResyncLine == <<"F", "U", "L", "L", "R", "E", "S", "Y", "N", "C", " ",
                    "i", "d", " ", "0">>
FullResyncBytes == <<"+">> \o FullResyncLine \o <<CR, LF>>
SnapshotBytes == <<"R", "E", "D", "I", "S">>
SnapshotHeader == <<"$">> \o I64ToString(Len(SnapshotBytes)) \o <<CR, LF>>

\* The command the primary propagates once the replica is registered.
PropagatedSet ==
  Array(<<Bulk(<<"S", "E", "T">>), Bulk(<<"k">>), Bulk(<<"v">>)>>)

\* What HandshakeSpec leaves alone.
notHs == <<keyspace, log, registry, now, mode, queued, channels, out, conn,
           cmd, nsent, blockVars, replVars, fanVars, pubVars, pipeVars,
           zsetVars, codecVars, rdbVars, mailVars, txnVars>>

HandshakeInit ==
  /\ keyspace = [k \in {"k"} |-> Missing]
  /\ log = <<>>
  /\ registry = [a \in Conns |-> NoReplica]
  /\ now = 1
  /\ mode = "Normal"
  /\ queued = <<>>
  /\ channels = <<>>
  /\ out = <<>>
  /\ conn = "open"
  /\ cmd = CNone
  /\ nsent = 0
  /\ BlockIdle
  /\ ReplIdle
  /\ FanIdle
  /\ PubIdle
  /\ PipeIdle
  /\ ZsetIdle
  /\ CodecIdle
  /\ RdbIdle
  /\ MailIdle
  /\ TxnIdle
  /\ hs = [NoHs EXCEPT !.pc = "send"]

\* handshake: framed.send of the next command.
HandshakeSend ==
  /\ hs.pc = "send"
  /\ hs.step < Len(HandshakeCmds)
  /\ hs' = [hs EXCEPT !.sent = Append(@, HandshakeCmds[hs.step + 1]),
                      !.step = @ + 1,
                      !.pc = "wait"]
  /\ UNCHANGED notHs

\* The primary's connection task answers PING with PONG and REPLCONF with OK.
PrimaryAnswers ==
  /\ hs.answered < Len(hs.sent)
  /\ hs.sent[hs.answered + 1] # "PSYNC ? -1"
  /\ hs' = [hs EXCEPT !.answered = @ + 1,
                      !.net = @ \o (IF hs.sent[hs.answered + 1] = "PING"
                                      THEN PongBytes ELSE OkBytes)]
  /\ UNCHANGED notHs

\* psync_command: three write_all calls, the FULLRESYNC line, the `$<len>`
\* header and the snapshot bytes, with no CR LF after them.
PsyncWrites ==
  /\ hs.answered < Len(hs.sent)
  /\ hs.sent[hs.answered + 1] = "PSYNC ? -1"
  /\ hs.written < 3
  /\ hs' = [hs EXCEPT !.written = @ + 1,
                      !.net = @ \o (CASE hs.written = 0 -> FullResyncBytes
                                      [] hs.written = 1 -> SnapshotHeader
                                      [] hs.written = 2 -> SnapshotBytes)]
  /\ UNCHANGED notHs

\* The replica is registered; its drain task writes a propagated SET.
PrimaryPropagates ==
  /\ hs.written = 3
  /\ hs.answered < Len(hs.sent)
  /\ hs' = [hs EXCEPT !.answered = @ + 1, !.net = @ \o Encode(PropagatedSet)]
  /\ UNCHANGED notHs

\* Framed::poll_next with nothing decodable: one read of the socket appends
\* the n bytes it returned to the read buffer.
FramedRead(n) ==
  /\ hs.pc \in {"wait", "replay"}
  /\ hs.st = "open"
  /\ ~hs.readable
  /\ n <= Len(hs.net)
  /\ hs' = [hs EXCEPT !.buf = @ \o SplitHead(hs.net, n),
                      !.net = SplitRest(hs.net, n),
                      !.readable = TRUE]
  /\ UNCHANGED notHs

\* handshake: one decode call of framed.next(). Any item or error ends the
\* wait of the first three steps; after PSYNC a simple string is required,
\* and then framed.into_inner() gives the socket back and the read buffer,
\* with whatever it still holds, is dropped.
HandshakeDecode ==
  /\ hs.pc = "wait"
  /\ hs.readable
  /\ LET r == Decode(hs.buf) IN
       hs' = IF r.st = "none" THEN [hs EXCEPT !.readable = FALSE]
             ELSE IF hs.step < Len(HandshakeCmds)
               THEN [hs EXCEPT !.buf = r.rest, !.pc = "send",
                               !.replies = @ + 1]
             ELSE IF r.st = "some" /\ r.val.t = "SimpleString"
               THEN [hs EXCEPT !.buf = <<>>, !.lost = r.rest,
                               !.readable = FALSE, !.pc = "rdb_line",
                               !.replies = @ + 1]
             ELSE [hs EXCEPT !.buf = r.rest, !.pc = "failed"]
  /\ UNCHANGED notHs

\* read_rdb_from_master, the loop: stream.read of one byte until the bytes
\* read end in CR LF; then the first byte must be `$` and the rest the
\* length.
RdbReadByte ==
  /\ hs.pc = "rdb_line"
  /\ hs.net # <<>>
  /\ LET line == Append(hs.line, Head(hs.net))
         len == Len(line)
         ended == len >= 2 /\ line[len - 1] = CR /\ line[len] = LF
         n == ParseInteger(SubSeq(line, 2, len - 2)) IN
       hs' = [hs EXCEPT !.net = Tail(@),
                        !.line = line,
                        !.pc = IF ~ended THEN "rdb_line"
                               ELSE IF line[1] # "$" \/ ~n.ok \/ n.val < 0
                                 THEN "failed"
                               ELSE "rdb_body",
                        !.need = IF ended /\ n.ok /\ n.val >= 0 THEN n.val
                                 ELSE 0]
  /\ UNCHANGED notHs

\* read_rdb_from_master: stream.read_exact(&mut rdb) returns once rdb_len
\* bytes have come; handshake returns the socket.
RdbReadExact ==
  /\ hs.pc = "rdb_body"
  /\ Len(hs.net) >= hs.need
  /\ hs' = [hs EXCEPT !.rdb = SplitHead(hs.net, hs.need),
                      !.net = SplitRest(hs.net, hs.need),
                      !.pc = "replay"]
  /\ UNCHANGED notHs

\* handle_replication_connection: one decode call of framed.next() on the
\* socket the handshake returned; `result?` ends the task on an error.
ReplayDecode ==
  /\ hs.pc = "replay"
  /\ hs.st = "open"
  /\ hs.readable
  /\ LET r == Decode(hs.buf) IN
       hs' = [hs EXCEPT !.buf = r.rest,
                        !.readable = (r.st = "some"),
                        !.got = IF r.st = "some" THEN Append(@, r.val) ELSE @,
                        !.st = IF r.st = "err" THEN "err" ELSE "open"]
  /\ UNCHANGED notHs

HandshakeNext ==
  \/ HandshakeSend
  \/ PrimaryAnswers
  \/ PsyncWrites
  \/ PrimaryPropagates
  \/ \E n \in 1..MaxSegment : FramedRead(n)
  \/ HandshakeDecode
  \/ RdbReadByte
  \/ RdbReadExact
  \/ ReplayDecode

HandshakeSpec == HandshakeInit /\ [][HandshakeNext]_vars

\* ----------------------------------------------- claims under HandshakeSpec

\* C40: the handshake sends PING, REPLCONF listening-port, REPLCONF capa
\* psync2 and PSYNC ? -1 in that order, each only after a reply to the
\* previous one, and then obtains the whole snapshot however the primary's
\* bytes were segmented: no byte that followed the FULLRESYNC line is lost,
\* the snapshot read is the snapshot sent, and the frames that follow are
\* decoded as the commands the primary propagated.
C40_HandshakeOrderAndWholeSnapshot ==
  /\ hs.sent = SubSeq(HandshakeCmds, 1, Len(hs.sent))
  /\ Len(hs.sent) <= hs.replies + 1
  /\ hs.pc # "failed"
  /\ hs.lost = <<>>
  /\ hs.pc = "replay" => hs.rdb = SnapshotBytes
  /\ hs.st = "open"
  /\ hs.got \in {<<>>, <<PropagatedSet>>}

====
